---- MODULE Spec2Model ----
(***************************************************************************)
(* A model of the YouTube analysis service: the analysis pipeline of       *)
(* services/youtubePuppeteerService.js (analyzeVideo and the operations it *)
(* calls), the shared browser handle, and the page contexts.               *)
(*                                                                         *)
(* Text is modelled as a sequence of one-character strings, so that the    *)
(* regular expressions, includes() and the template strings of the source  *)
(* are computed character by character.                                    *)
(***************************************************************************)
EXTENDS Integers, Sequences, FiniteSets, TLC

----------------------------------------------------------------------------
(* Text literals of the source *)

\* the text literals of the source, each under its name
Lit ==
    [ \* the text 'youtube.com/'
      YoutubeCom |->
          <<"y", "o", "u", "t", "u", "b", "e", ".", "c", "o", "m", "/">>,
      \* the text 'youtu.be/'
      YoutuBe |->
          <<"y", "o", "u", "t", "u", ".", "b", "e", "/">>,
      \* the text 'embed/'
      Embed |->
          <<"e", "m", "b", "e", "d", "/">>,
      \* the text 'silent'
      Silent |->
          <<"s", "i", "l", "e", "n", "t">>,
      \* the text '/audio/'
      AudioDir |->
          <<"/", "a", "u", "d", "i", "o", "/">>,
      \* the text '/screenshots/'
      ScreenshotsDir |->
          <<"/", "s", "c", "r", "e", "e", "n", "s", "h", "o", "t", "s",
            "/">>,
      \* the text 'Unknown Title'
      UnknownTitle |->
          <<"U", "n", "k", "n", "o", "w", "n", " ", "T", "i", "t", "l", "e">>,
      \* the text '.wav'
      Wav |->
          <<".", "w", "a", "v">>,
      \* the text '_silent.wav'
      SilentWav |->
          <<"_", "s", "i", "l", "e", "n", "t", ".", "w", "a", "v">>,
      \* the text '.png'
      Png |->
          <<".", "p", "n", "g">>,
      \* the text '_fallback.png'
      FallbackPng |->
          <<"_", "f", "a", "l", "l", "b", "a", "c", "k", ".", "p", "n",
            "g">>,
      \* the text 'https://img.youtube.com/vi/'
      ThumbBase |->
          <<"h", "t", "t", "p", "s", ":", "/", "/", "i", "m", "g", ".",
            "y", "o", "u", "t", "u", "b", "e", ".", "c", "o", "m", "/",
            "v", "i", "/">>,
      \* the text '/default.jpg'
      DefaultJpg |->
          <<"/", "d", "e", "f", "a", "u", "l", "t", ".", "j", "p", "g">>,
      \* the text '/mqdefault.jpg'
      MqJpg |->
          <<"/", "m", "q", "d", "e", "f", "a", "u", "l", "t", ".", "j",
            "p", "g">>,
      \* the text '/hqdefault.jpg'
      HqJpg |->
          <<"/", "h", "q", "d", "e", "f", "a", "u", "l", "t", ".", "j",
            "p", "g">>,
      \* the text '/maxresdefault.jpg'
      MaxresJpg |->
          <<"/", "m", "a", "x", "r", "e", "s", "d", "e", "f", "a", "u",
            "l", "t", ".", "j", "p", "g">>,
      \* the text 'https://youtube.com/@'
      ChannelBase |->
          <<"h", "t", "t", "p", "s", ":", "/", "/", "y", "o", "u", "t",
            "u", "b", "e", ".", "c", "o", "m", "/", "@">>,
      \* the text 'http://'
      Http |->
          <<"h", "t", "t", "p", ":", "/", "/">>,
      \* the text 'https://'
      Https |->
          <<"h", "t", "t", "p", "s", ":", "/", "/">>,
      \* the text 'www.'
      Www |->
          <<"w", "w", "w", ".">>,
      \* the text 'youtube.com/watch?'
      Watch |->
          <<"y", "o", "u", "t", "u", "b", "e", ".", "c", "o", "m", "/",
            "w", "a", "t", "c", "h", "?">>,
      \* the text 'Unknown Channel'
      UnknownChannel |->
          <<"U", "n", "k", "n", "o", "w", "n", " ", "C", "h", "a", "n",
            "n", "e", "l">>,
      \* the text 'Unknown'
      Unknown |->
          <<"U", "n", "k", "n", "o", "w", "n">> ]

\* https://www.youtube.com/watch?v=dQw4w9WgXcQ: a watch-page URL
UrlWatch ==
    <<"h", "t", "t", "p", "s", ":", "/", "/", "w", "w", "w", ".", "y", "o", "u", "t",
      "u", "b", "e", ".", "c", "o", "m", "/", "w", "a", "t", "c", "h", "?", "v", "=",
      "d", "Q", "w", "4", "w", "9", "W", "g", "X", "c", "Q">>

\* https://youtu.be/mysilentvid: a short-link URL whose identifier contains the word silent
UrlShort ==
    <<"h", "t", "t", "p", "s", ":", "/", "/", "y", "o", "u", "t", "u", ".", "b", "e",
      "/", "m", "y", "s", "i", "l", "e", "n", "t", "v", "i", "d">>

\* https://example.com/x: a URL of another site
UrlOther ==
    <<"h", "t", "t", "p", "s", ":", "/", "/", "e", "x", "a", "m", "p", "l", "e", ".",
      "c", "o", "m", "/", "x">>

----------------------------------------------------------------------------
(* String operations of JavaScript used by the source *)

\* the JavaScript value null
NULL == "null"

\* s starts with the text lit at position i (1-based)
HasAt(s, i, lit) ==
    /\ i >= 1
    /\ i + Len(lit) - 1 <= Len(s)
    /\ \A k \in 1..Len(lit) : s[i + k - 1] = lit[k]

\* String.prototype.includes
includes(s, lit) ==
    \E i \in 1..Len(s) : HasAt(s, i, lit)

\* the character class [^"&?\/\s] of the identifier group
IsIdChar(c) ==
    c \notin {"\"", "&", "?", "/", " "}

\* the group ([^"&?\/\s]{11}) matches at position i
IdAt(s, i) ==
    /\ i >= 1
    /\ i + 10 <= Len(s)
    /\ \A k \in i..(i + 10) : IsIdChar(s[k])

\* the largest element of a non-empty set of integers
Max(S) == CHOOSE x \in S : \A y \in S : y <= x

\* the smallest element of a non-empty set of integers
Min(S) == CHOOSE x \in S : \A y \in S : x <= y

(* The alternatives of the regular expression of extractVideoId, tried in  *)
(* the order of the source after the text youtube.com/ that ends before    *)
(* position q. Each is the set of positions where the identifier group can *)
(* start; a greedy quantifier takes the largest.                           *)

\* [^\/]+\/.+\/ : a non-empty run without a slash, a slash, at least one
\* character (greedy), a slash
AltPath(s, q) ==
    LET slashes == {r \in q..Len(s) : s[r] = "/"}
        r == IF slashes = {} THEN 0 ELSE Min(slashes)
    IN  IF r <= q THEN {}
        ELSE {j + 1 : j \in {j \in (r + 2)..Len(s) : s[j] = "/" /\ IdAt(s, j + 1)}}

\* (?:v|e(?:mbed)?)\/
AltEmbed(s, q) ==
    {i \in {q + 2, q + 6} :
        /\ IdAt(s, i)
        /\ \/ i = q + 2 /\ (HasAt(s, q, <<"v", "/">>) \/ HasAt(s, q, <<"e", "/">>))
           \/ i = q + 6 /\ HasAt(s, q, Lit.Embed)}

\* .*[?&]v= : any characters (greedy), then ?v= or &v=
AltQuery(s, q) ==
    {k + 3 : k \in {k \in q..Len(s) :
        /\ s[k] \in {"?", "&"}
        /\ HasAt(s, k + 1, <<"v", "=">>)
        /\ IdAt(s, k + 3)}}

\* where the identifier group starts when the expression matches from
\* position st, 0 when it does not match there
MatchFrom(s, st) ==
    IF HasAt(s, st, Lit.YoutubeCom)
    THEN LET q == st + Len(Lit.YoutubeCom)
         IN  IF AltPath(s, q) # {} THEN Max(AltPath(s, q))
             ELSE IF AltEmbed(s, q) # {} THEN Min(AltEmbed(s, q))
             ELSE IF AltQuery(s, q) # {} THEN Max(AltQuery(s, q))
             ELSE 0
    ELSE IF HasAt(s, st, Lit.YoutuBe) /\ IdAt(s, st + Len(Lit.YoutuBe))
    THEN st + Len(Lit.YoutuBe)
    ELSE 0

\* extractVideoId: the identifier of the leftmost match, or the error thrown
extractVideoId(url) ==
    LET starts == {st \in 1..Len(url) : MatchFrom(url, st) # 0}
    IN  IF starts = {}
        THEN [ok |-> FALSE, message |-> "Could not extract video ID"]
        ELSE LET i == MatchFrom(url, Min(starts))
             IN  [ok |-> TRUE, value |-> SubSeq(url, i, i + 10)]

\* one entry of generateThumbnails
Thumbnail(videoId, file, w, h) ==
    [url |-> Lit.ThumbBase \o videoId \o file, width |-> w, height |-> h]

\* generateThumbnails without the entry of the largest size
generateThumbnails_Three(videoId) ==
    << Thumbnail(videoId, Lit.DefaultJpg, 120, 90),
       Thumbnail(videoId, Lit.MqJpg, 320, 180),
       Thumbnail(videoId, Lit.HqJpg, 480, 360) >>

\* generateThumbnails
generateThumbnails(videoId) ==
    << Thumbnail(videoId, Lit.DefaultJpg, 120, 90),
       Thumbnail(videoId, Lit.MqJpg, 320, 180),
       Thumbnail(videoId, Lit.HqJpg, 480, 360),
       Thumbnail(videoId, Lit.MaxresJpg, 1280, 720) >>

----------------------------------------------------------------------------
(* Numbers of JavaScript: a number is NaN or an integer here (every number *)
(* the pipeline stores has been through Math.floor)                        *)

\* the number n
Number(n) == [nan |-> FALSE, n |-> n]

\* the value NaN
NaN == [nan |-> TRUE, n |-> 0]

\* the decimal digits, "0" first
Digits == <<"0", "1", "2", "3", "4", "5", "6", "7", "8", "9">>

\* the upper-case letters
UpperCase ==
    <<"A", "B", "C", "D", "E", "F", "G", "H", "I", "J", "K", "L", "M",
      "N", "O", "P", "Q", "R", "S", "T", "U", "V", "W", "X", "Y", "Z">>

\* the lower-case letters, in the same order
LowerCase ==
    <<"a", "b", "c", "d", "e", "f", "g", "h", "i", "j", "k", "l", "m",
      "n", "o", "p", "q", "r", "s", "t", "u", "v", "w", "x", "y", "z">>

\* c is a decimal digit
IsDigit(c) == \E d \in 1..Len(Digits) : Digits[d] = c

\* the value of the digit c
DigitVal(c) == (CHOOSE d \in 1..Len(Digits) : Digits[d] = c) - 1

\* one character of String.prototype.toLowerCase
LowerChar(c) ==
    IF \E k \in 1..Len(UpperCase) : UpperCase[k] = c
    THEN LowerCase[CHOOSE k \in 1..Len(UpperCase) : UpperCase[k] = c]
    ELSE c

\* String.prototype.toLowerCase
toLowerCase(s) == [i \in 1..Len(s) |-> LowerChar(s[i])]

\* s.replace(/[,\s]/g, '')
StripSeparators(s) == SelectSeq(s, LAMBDA c : c \notin {",", " "})

\* s.replace(/\s+/g, '')
StripSpaces(s) == SelectSeq(s, LAMBDA c : c # " ")

\* how many digits s has in a row from position i on
DigitRun(s, i) ==
    LET stops == {j \in i..Len(s) : ~IsDigit(s[j])}
    IN  IF i > Len(s) THEN 0
        ELSE IF stops = {} THEN Len(s) - i + 1
        ELSE Min(stops) - i

RECURSIVE DigitsValue(_)
\* the value of a sequence of digits, 0 for the empty one
DigitsValue(ds) ==
    IF ds = <<>> THEN 0
    ELSE 10 * DigitsValue(SubSeq(ds, 1, Len(ds) - 1)) + DigitVal(ds[Len(ds)])

RECURSIVE Pow10(_)
\* ten to the power e, e >= 0
Pow10(e) == IF e = 0 THEN 1 ELSE 10 * Pow10(e - 1)

(* parseFloat: the longest prefix that is a decimal literal (sign, digits,  *)
(* fraction, exponent). The result is kept exact, as mant * 10^exp with a  *)
(* sign, so that the scaling by a power of ten is exact too.               *)
parseFloat(s) ==
    LET sg   == IF Len(s) >= 1 /\ s[1] \in {"+", "-"} THEN 1 ELSE 0
        ni   == DigitRun(s, sg + 1)
        dot  == sg + ni + 1 <= Len(s) /\ s[sg + ni + 1] = "."
        nf   == IF dot THEN DigitRun(s, sg + ni + 2) ELSE 0
        m    == sg + ni + (IF dot /\ (ni > 0 \/ nf > 0) THEN 1 + nf ELSE 0) + 1
        esg  == IF m + 1 <= Len(s) /\ s[m + 1] \in {"+", "-"} THEN 1 ELSE 0
        ne   == IF m <= Len(s) /\ s[m] \in {"e", "E"}
                THEN DigitRun(s, m + esg + 1) ELSE 0
        ev   == DigitsValue(SubSeq(s, m + esg + 1, m + esg + ne))
        ex   == IF ne = 0 THEN 0
                ELSE IF esg = 1 /\ s[m + 1] = "-" THEN 0 - ev ELSE ev
    IN  IF ni = 0 /\ nf = 0 THEN [nan |-> TRUE]
        ELSE [nan  |-> FALSE,
              neg  |-> sg = 1 /\ s[1] = "-",
              mant |-> DigitsValue(SubSeq(s, sg + 1, sg + ni)
                                   \o SubSeq(s, sg + ni + 2, sg + ni + 1 + nf)),
              exp  |-> ex - nf]

\* Math.floor(x * 10^k) for a number x as parseFloat gives it
FloorScaled(x, k) ==
    IF x.nan THEN NaN
    ELSE LET e == x.exp + k
             q == IF e >= 0 THEN x.mant * Pow10(e) ELSE x.mant \div Pow10(0 - e)
             exact == e >= 0 \/ x.mant % Pow10(0 - e) = 0
         IN  IF ~x.neg THEN Number(q)
             ELSE IF exact THEN Number(0 - q)
             ELSE Number(0 - q - 1)

\* parseViewCount
parseViewCount(viewCountText) ==
    IF viewCountText = <<>> THEN Number(0)
    ELSE LET text == StripSeparators(toLowerCase(viewCountText))
             number == parseFloat(text)
         IN  IF includes(text, <<"k">>) THEN FloorScaled(number, 3)
             ELSE IF includes(text, <<"m">>) THEN FloorScaled(number, 6)
             ELSE IF includes(text, <<"b">>) THEN FloorScaled(number, 9)
             ELSE IF number.nan THEN Number(0)
             ELSE FloorScaled(number, 0)

\* the character class [a-zA-Z0-9_-]
IsTokenChar(c) ==
    \/ c \in {"_", "-"}
    \/ IsDigit(c)
    \/ \E i \in 1..Len(UpperCase) : c = UpperCase[i] \/ c = LowerCase[i]

\* isValidYouTubeUrl: one of the two patterns matches from the start of the
\* text. Both begin with http or https, ://, and an optional www.
isValidYouTubeUrl(url) ==
    LET q == IF HasAt(url, 1, Lit.Https) THEN Len(Lit.Https) + 1
             ELSE IF HasAt(url, 1, Lit.Http) THEN Len(Lit.Http) + 1
             ELSE 0
        hosts == IF q = 0 THEN {}
                 ELSE {q} \cup (IF HasAt(url, q, Lit.Www) THEN {q + Len(Lit.Www)} ELSE {})
        \* (youtube\.com\/watch\?v=|youtu\.be\/|youtube\.com\/embed\/)
        pattern1 ==
            \E h \in hosts :
                \/ HasAt(url, h, Lit.Watch \o <<"v", "=">>)
                \/ HasAt(url, h, Lit.YoutuBe)
                \/ HasAt(url, h, Lit.YoutubeCom \o Lit.Embed)
        \* youtube\.com\/watch\?.*v=([a-zA-Z0-9_-]{11})
        pattern2 ==
            \E h \in hosts :
                /\ HasAt(url, h, Lit.Watch)
                /\ \E k \in (h + Len(Lit.Watch))..Len(url) :
                      /\ HasAt(url, k, <<"v", "=">>)
                      /\ k + 12 <= Len(url)
                      /\ \A j \in (k + 2)..(k + 12) : IsTokenChar(url[j])
    IN  pattern1 \/ pattern2

----------------------------------------------------------------------------
(* The buffer createSilentWav builds. A Buffer is its length and the bytes *)
(* that were written to it, by offset from 0: Buffer.alloc fills with      *)
(* zeros, so a byte that was never written reads 0.                        *)

\* the character codes buffer.write stores for the texts of the header
CharCode(c) ==
    CASE c = "R" -> 82 [] c = "I" -> 73 [] c = "F" -> 70 [] c = "W" -> 87
      [] c = "A" -> 65 [] c = "V" -> 86 [] c = "E" -> 69 [] c = "f" -> 102
      [] c = "m" -> 109 [] c = "t" -> 116 [] c = " " -> 32 [] c = "d" -> 100
      [] c = "a" -> 97

\* Buffer.alloc(size)
BufferAlloc(size) == [length |-> size, bytes |-> [o \in {} |-> 0]]

\* the buffer with the bytes bs (a sequence) stored from the offset on
BufferStore(buf, bs, offset) ==
    LET at == {o \in offset..(offset + Len(bs) - 1) : o < buf.length}
    IN  [buf EXCEPT !.bytes =
            [o \in (DOMAIN @) \cup at |->
                IF o \in at THEN bs[o - offset + 1] ELSE @[o]]]

\* buffer.write(text, offset)
BufferWrite(buf, text, offset) ==
    BufferStore(buf, [k \in 1..Len(text) |-> CharCode(text[k])], offset)

\* buffer.writeUInt32LE(value, offset): the four low bytes of the value,
\* the lowest first
WriteUInt32LE(buf, value, offset) ==
    BufferStore(buf, << value % 256, (value \div 256) % 256,
                        (value \div 65536) % 256,
                        (value \div 16777216) % 256 >>, offset)

\* buffer.writeUInt16LE(value, offset): the two low bytes of the value,
\* the lowest first
WriteUInt16LE(buf, value, offset) ==
    BufferStore(buf, << value % 256, (value \div 256) % 256 >>, offset)

\* the byte of the buffer at the offset
ByteAt(buf, offset) ==
    IF offset \in DOMAIN buf.bytes THEN buf.bytes[offset] ELSE 0

\* the specification of the placeholder: 16kHz, mono, 16-bit, 10 seconds
sampleRate == 16000

duration == 10

numSamples == sampleRate * duration

numChannels == 1

bitsPerSample == 16

bytesPerSample == bitsPerSample \div 8

blockAlign == numChannels * bytesPerSample

byteRate == sampleRate * blockAlign

\* a data size counted in samples instead of bytes
dataSize_InSamples == numSamples

dataSize == numSamples * blockAlign

fileSize == 36 + dataSize

\* the buffer createSilentWav passes to writeFile: the header is written
\* field after field, offset advancing by the width of each
SilentWavBuffer ==
    LET b0  == BufferAlloc(44 + dataSize)
        b1  == BufferWrite(b0, <<"R", "I", "F", "F">>, 0)
        b2  == WriteUInt32LE(b1, fileSize, 4)
        b3  == BufferWrite(b2, <<"W", "A", "V", "E">>, 8)
        b4  == BufferWrite(b3, <<"f", "m", "t", " ">>, 12)
        b5  == WriteUInt32LE(b4, 16, 16)
        b6  == WriteUInt16LE(b5, 1, 20)
        b7  == WriteUInt16LE(b6, numChannels, 22)
        b8  == WriteUInt32LE(b7, sampleRate, 24)
        b9  == WriteUInt32LE(b8, byteRate, 28)
        b10 == WriteUInt16LE(b9, blockAlign, 32)
        b11 == WriteUInt16LE(b10, bitsPerSample, 34)
        b12 == BufferWrite(b11, <<"d", "a", "t", "a">>, 36)
    IN  WriteUInt32LE(b12, dataSize, 40)

----------------------------------------------------------------------------
(* Bounds of the model *)

\* how many invocations of analyzeVideo may be in flight together
MaxInvocations == 2

\* how many times close() is called
MaxCloseCalls == 1

\* the invocations of analyzeVideo
Invocations == 1..MaxInvocations

----------------------------------------------------------------------------
(* Values the environment supplies *)

\* the text 'Rick Astley'
ChannelFound ==
    <<"R", "i", "c", "k", " ", "A", "s", "t", "l", "e", "y">>

\* the text '1,234 views'
ViewsFound ==
    <<"1", ",", "2", "3", "4", " ", "v", "i", "e", "w", "s">>

\* the text 'Hello there. This is a test sentence!'
TextHello ==
    <<"H", "e", "l", "l", "o", " ", "t", "h", "e", "r", "e", ".", " ", "T", "h", "i",
      "s", " ", "i", "s", " ", "a", " ", "t", "e", "s", "t", " ", "s", "e", "n", "t",
      "e", "n", "c", "e", "!">>

\* this.browser = null
NoBrowser == 0

\* a null reference to a file
NoPath == <<>>

\* a null object
NullObject == [null |-> TRUE]

\* the URLs analyzeVideo is called with
Urls == {UrlWatch, UrlShort, UrlOther}

\* The URLs a request may carry, built from their parts: a scheme, a host
\* prefix, the shape of the link, the identifier and a further parameter.
\* The shapes are the watch page (the identifier first or last among the
\* query parameters), the short link, the embed link, the legacy /v/ link
\* and a watch page of another site.
UrlShapes ==
    { [name |-> "watch", head |-> Lit.Watch \o <<"v", "=">>, sep |-> "&"],
      [name |-> "watchLast", head |-> Lit.Watch \o <<"t", "=", "1", "&", "v", "=">>,
       sep |-> "&"],
      [name |-> "short", head |-> Lit.YoutuBe, sep |-> "?"],
      [name |-> "embed", head |-> Lit.YoutubeCom \o Lit.Embed, sep |-> "?"],
      [name |-> "legacy", head |-> Lit.YoutubeCom \o <<"v", "/">>, sep |-> "?"],
      [name |-> "other",
       head |-> <<"e", "x", "a", "m", "p", "l", "e", ".", "c", "o", "m", "/",
                  "w", "a", "t", "c", "h", "?", "v", "=">>,
       sep |-> "&"] }

\* the identifiers: two of eleven characters, and one that is too short
UrlIds ==
    { SubSeq(UrlWatch, 33, 43),
      <<"a", "-", "b", "_", "c", "1", "D", "2", "e", "3", "F">>,
      <<"a", "b", "c">> }

\* the URL with these parts
UrlOf(scheme, host, shape, id, more) ==
    scheme \o host \o shape.head \o id
        \o (IF more THEN <<shape.sep, "l", "=", "x">> ELSE <<>>)

\* every URL of the family
UrlFamily ==
    { UrlOf(scheme, host, shape, id, more) :
        scheme \in {Lit.Http, Lit.Https, <<>>}, host \in {<<>>, Lit.Www, <<"m", ".">>},
        shape \in UrlShapes, id \in UrlIds, more \in BOOLEAN }

\* the readings of Date.now(), as decimal text
ClockValues == {<<"1", "7">>}

\* two readings of Date.now(), one millisecond apart
ClockReadings == ClockValues \cup {<<"1", "8">>}

\* what document.querySelector returns when an element matches: an element
\* with a text and no content property (undefined, shown as the empty text)
Element(text) == [textContent |-> text, content |-> <<>>]

\* a meta element: no text, and the content attribute
Meta(content) == [textContent |-> <<>>, content |-> content]

\* the texts a page may show where the view count is looked for: '1,234',
\* '10K', '2.5M', '1B', '1.2k views', '12 likes', 'Members only', 'No views',
\* '987 views'
ViewTexts ==
    { <<"1", ",", "2", "3", "4">>,
      <<"1", "0", "K">>,
      <<"2", ".", "5", "M">>,
      <<"1", "B">>,
      <<"1", ".", "2", "k", " ", "v", "i", "e", "w", "s">>,
      <<"1", "2", " ", "l", "i", "k", "e", "s">>,
      <<"M", "e", "m", "b", "e", "r", "s", " ", "o", "n", "l", "y">>,
      <<"N", "o", " ", "v", "i", "e", "w", "s">>,
      <<"9", "8", "7", " ", "v", "i", "e", "w", "s">>,
      ViewsFound }

\* a document whose fields are each found by their k-th selector, with the
\* view count text views. For a field with n selectors, in the order of the
\* source: the selectors before the k-th return before (no element, or an
\* element without content), the k-th returns the element found (a meta
\* element when it is the last selector of the field), the ones after it
\* return another element with a text; no selector matches when k > n.
DocumentAt(k, before, views) ==
    LET Row(n, found) ==
            [j \in 1..n |-> IF k > n THEN NullObject
                            ELSE IF j < k THEN before
                            ELSE IF j = k THEN found
                            ELSE Element(<<"l", "a", "t", "e", "r">>)]
        Found(n, text) == IF k < n THEN Element(text) ELSE Meta(text)
    IN  [title |-> Row(4, IF k < 4
                          THEN Element(<<" ", "N", "e", "v", "e", "r", " ">>)
                          ELSE Meta(<<"N", "e", "v", "e", "r">>)),
         channelName |-> Row(4, Found(4, ChannelFound)),
         viewCount |-> Row(4, Element(views)),
         description |-> Row(3, Found(3, <<"T", "e", "x", "t">>)),
         duration |-> Row(3, Found(3, <<"3", ":", "3", "3">>))]

\* the documents of the pipeline: every field found by its first selector,
\* or no field found
Documents ==
    {DocumentAt(1, NullObject, ViewsFound), DocumentAt(5, NullObject, ViewsFound)}

\* the documents of the extraction: each field found by its k-th selector
\* after selectors that match no element, an element without text or an
\* element whose text is white space; every view count text; no field found
DocumentFamily ==
    {DocumentAt(k, before, ViewsFound) :
        k \in 1..5, before \in {NullObject, Element(<<>>), Element(<<" ">>)}}
        \cup {DocumentAt(1, NullObject, views) : views \in ViewTexts}

\* the media elements a page may show to checkPlaybackStatus
MediaStates ==
    { [player |-> FALSE, video |-> FALSE],
      [player |-> TRUE, video |-> FALSE],
      [player |-> TRUE, video |-> TRUE, readyState |-> 4, paused |-> FALSE,
       ended |-> FALSE, currentTime |-> 3],
      [player |-> TRUE, video |-> TRUE, readyState |-> 1, paused |-> TRUE,
       ended |-> FALSE, currentTime |-> 0] }

\* more media elements: a video outside any player, and one change at a
\* time from the playing video (ready state 2, paused, ended, not started)
MediaFamily ==
    MediaStates \cup
    { [player |-> FALSE, video |-> TRUE, readyState |-> 2, paused |-> FALSE,
       ended |-> FALSE, currentTime |-> 3],
      [player |-> TRUE, video |-> TRUE, readyState |-> 2, paused |-> FALSE,
       ended |-> FALSE, currentTime |-> 3],
      [player |-> TRUE, video |-> TRUE, readyState |-> 4, paused |-> TRUE,
       ended |-> FALSE, currentTime |-> 3],
      [player |-> TRUE, video |-> TRUE, readyState |-> 4, paused |-> FALSE,
       ended |-> TRUE, currentTime |-> 3],
      [player |-> TRUE, video |-> TRUE, readyState |-> 4, paused |-> FALSE,
       ended |-> FALSE, currentTime |-> 0] }

\* the text 'Hello there. Okay. This is a test sentence!'
TextOkay ==
    SubSeq(TextHello, 1, 13) \o <<"O", "k", "a", "y", ".", " ">>
        \o SubSeq(TextHello, 14, Len(TextHello))

\* the text 'Fine now. Hello there.'
TextFine ==
    <<"F", "i", "n", "e", " ", "n", "o", "w", ".", " ">> \o SubSeq(TextHello, 1, 12)

\* the bodies of the requests to POST /transcribe: a path, a URL, or neither
AudioPaths == {<<>>, Lit.AudioDir \o <<"a">> \o Lit.Wav}

AudioUrls == {<<>>, Lit.Http \o <<"h", "/", "a">> \o Lit.Wav}

\* the replies of the synthetic-text detector to a request: a success with
\* its data, a status that is not a success, a request that failed
DetectorReplies ==
    { [outcome |-> "ok", fakePercentage |-> 80, isHuman |-> FALSE, textWords |-> 4],
      [outcome |-> "ok", fakePercentage |-> 25, isHuman |-> TRUE, textWords |-> 4],
      [outcome |-> "notOk"],
      [outcome |-> "threw"] }

\* the responses of the speech-to-text service
Transcriptions ==
    { [text |-> TextHello, speakers |-> <<"speaker_0">>, events |-> <<>>,
       confidence |-> 9],
      [text |-> <<>>, speakers |-> <<>>, events |-> <<"music">>,
       confidence |-> 0] }

\* the responses of the speech-to-text service to the calls of the
\* transcription service
Transcripts ==
    Transcriptions \cup
    { [text |-> TextOkay, speakers |-> <<"speaker_0">>, events |-> <<>>,
       confidence |-> 9],
      [text |-> TextFine, speakers |-> <<"speaker_0">>, events |-> <<>>,
       confidence |-> 9] }

----------------------------------------------------------------------------
(* State *)

VARIABLES
    browser,      \* this.browser: the shared handle, NoBrowser or a browser
    launched,     \* how many browser processes puppeteer.launch has started
    alive,        \* the browser processes that are running
    pages,        \* the invocations whose page context is open
    frame,        \* the locals of each invocation of analyzeVideo
    history,      \* per invocation: the stages called and the stages failed
    closer        \* the calls of close(): their number, and the one in progress

vars == <<browser, launched, alive, pages, frame, history, closer>>

\* the locals of an invocation that has not been called
IdleFrame ==
    [pc |-> "idle", url |-> <<>>, browser |-> NoBrowser, page |-> "null",
     videoId |-> <<>>, document |-> NullObject, queried |-> NullObject,
     videoInfo |-> NullObject, media |-> NullObject,
     playbackStatus |-> NullObject,
     captured |-> "none", screenshotPath |-> NoPath, outputFilename |-> NoPath,
     outputExists |-> FALSE, audioPath |-> NoPath,
     buffer |-> NullObject,
     call |-> NullObject, transcription |-> NullObject, sentences |-> <<>>,
     i |-> 0, requests |-> <<>>, replies |-> <<>>,
     processedSentences |-> <<>>, enhancedResult |-> NullObject,
     response |-> NullObject,
     transcriptionResult |-> NullObject, result |-> NullObject]

Init ==
    /\ browser = NoBrowser
    /\ launched = 0
    /\ alive = {}
    /\ pages = {}
    /\ frame = [p \in Invocations |-> IdleFrame]
    /\ history = [p \in Invocations |-> [called |-> {}, failed |-> {}]]
    /\ closer = [calls |-> 0, closing |-> {}]

\* invocation p has called the stages cs, of which fs failed
Note(p, cs, fs) ==
    [history EXCEPT ![p] = [called |-> @.called \cup cs, failed |-> @.failed \cup fs]]

----------------------------------------------------------------------------
(* The values analyzeVideo computes *)

\* new Date().toISOString(): the value is not used by the pipeline
IsoNow == "iso-timestamp"

\* the path the screenshot is served under: /screenshots/<id>_<ts><suffix>
ScreenshotRef(videoId, ts, suffix) ==
    Lit.ScreenshotsDir \o videoId \o <<"_">> \o ts \o suffix

\* the path an audio file is served under: /audio/<id>_<ts><suffix>
AudioRef(videoId, ts, suffix) ==
    Lit.AudioDir \o videoId \o <<"_">> \o ts \o suffix

\* a status whose canPlay asks for a readyState above 2
PlaybackOf_AboveTwo(d) ==
    IF ~d.player /\ ~d.video
    THEN [canPlay |-> FALSE, isPlaying |-> FALSE, error |-> "Video player not found"]
    ELSE IF ~d.video
    THEN [canPlay |-> FALSE, isPlaying |-> FALSE, error |-> "Video element not found"]
    ELSE [canPlay |-> d.readyState > 2,
          isPlaying |-> ~d.paused /\ ~d.ended /\ d.currentTime > 0,
          error |-> "null",
          readyState |-> d.readyState, currentTime |-> d.currentTime,
          paused |-> d.paused, ended |-> d.ended]

\* what the page.evaluate of checkPlaybackStatus returns on the media state d
PlaybackOf(d) ==
    IF ~d.player /\ ~d.video
    THEN [canPlay |-> FALSE, isPlaying |-> FALSE, error |-> "Video player not found"]
    ELSE IF ~d.video
    THEN [canPlay |-> FALSE, isPlaying |-> FALSE, error |-> "Video element not found"]
    ELSE [canPlay |-> d.readyState >= 2,
          isPlaying |-> ~d.paused /\ ~d.ended /\ d.currentTime > 0,
          error |-> "null",
          readyState |-> d.readyState, currentTime |-> d.currentTime,
          paused |-> d.paused, ended |-> d.ended]

\* what checkPlaybackStatus returns when its page.evaluate throws
PlaybackFailed ==
    [canPlay |-> FALSE, isPlaying |-> FALSE,
     error |-> "Playback check failed: evaluate failed"]

\* text.split(' ').length
SplitLength(text) == Cardinality({i \in 1..Len(text) : text[i] = " "}) + 1

\* formatTranscription
formatTranscription(transcriptionResult) ==
    IF ~transcriptionResult.success
    THEN [text |-> <<>>, speakers |-> <<>>, events |-> <<>>,
          error |-> transcriptionResult.error]
    ELSE LET transcription == transcriptionResult.transcription
         IN  [text |-> transcription.text,
              speakers |-> transcription.speakers,
              events |-> transcription.events,
              duration |-> IF "duration" \in DOMAIN transcription
                           THEN transcription.duration ELSE 0,
              language |-> IF "language" \in DOMAIN transcription
                           THEN transcription.language ELSE "eng",
              confidence |-> transcription.confidence,
              wordCount |-> IF transcription.text # <<>>
                            THEN SplitLength(transcription.text) ELSE 0,
              ai_analysis |-> IF "ai_analysis" \in DOMAIN transcriptionResult
                              THEN transcriptionResult.ai_analysis
                              ELSE NullObject]

\* the transcription block of the analysis of the try block
TranscriptionBlock(transcriptionResult) ==
    IF transcriptionResult # NullObject
    THEN LET ok == transcriptionResult.success
             formatted == formatTranscription(transcriptionResult)
         IN  [success |-> ok,
              text |-> IF ok THEN formatted.text ELSE <<>>,
              speakers |-> IF ok THEN formatted.speakers ELSE <<>>,
              events |-> IF ok THEN formatted.events ELSE <<>>,
              confidence |-> IF ok THEN formatted.confidence ELSE 0,
              wordCount |-> IF ok THEN formatted.wordCount ELSE 0,
              error |-> IF ok THEN "null" ELSE transcriptionResult.error,
              timestamp |-> transcriptionResult.timestamp]
    ELSE [success |-> FALSE, text |-> <<>>, speakers |-> <<>>, events |-> <<>>,
          error |-> "No audio available for transcription",
          timestamp |-> IsoNow]

\* the method of the audio block
AudioMethod(audioPath) ==
    IF audioPath # NoPath
    THEN (IF includes(audioPath, Lit.Silent) THEN "Silent placeholder" ELSE "Downloaded")
    ELSE "Failed"

\* the object analyzeVideo returns from its try block
Analysis(f) ==
    [videoId |-> f.videoId,
     title |-> f.videoInfo.title,
     description |-> <<f.videoInfo.description>>,
     duration |-> f.videoInfo.duration,
     viewCount |-> parseViewCount(f.videoInfo.viewCount),
     author |-> [name |-> f.videoInfo.channelName,
                 channelUrl |-> Lit.ChannelBase \o StripSpaces(f.videoInfo.channelName),
                 subscriberCount |-> 0],
     playback |-> [canPlay |-> f.playbackStatus.canPlay,
                   isPlaying |-> f.playbackStatus.isPlaying,
                   error |-> f.playbackStatus.error],
     screenshot |-> [path |-> f.screenshotPath, timestamp |-> IsoNow],
     audio |-> [path |-> f.audioPath, format |-> "wav", sampleRate |-> "16kHz",
                channels |-> "mono", bitDepth |-> "16bit", timestamp |-> IsoNow,
                method |-> AudioMethod(f.audioPath)],
     transcription |-> TranscriptionBlock(f.transcriptionResult),
     thumbnails |-> generateThumbnails(f.videoId),
     technical |-> [pageLoadTime |-> "now", userAgent |-> "Mozilla/5.0",
                    viewport |-> [width |-> 1280, height |-> 720]],
     analyzedAt |-> IsoNow,
     url |-> f.url,
     method |-> "Puppeteer"]

\* the object analyzeVideo returns from its catch block
Fallback(videoId, url, message) ==
    [videoId |-> videoId,
     title |-> "Error loading video",
     description |-> <<"Failed to load YouTube page: ", message>>,
     duration |-> "Unknown",
     viewCount |-> Number(0),
     author |-> [name |-> Lit.Unknown, channelUrl |-> <<>>, subscriberCount |-> 0],
     playback |-> [canPlay |-> FALSE, isPlaying |-> FALSE, error |-> message],
     screenshot |-> [path |-> NoPath, timestamp |-> IsoNow],
     audio |-> [path |-> NoPath, format |-> "wav", sampleRate |-> "16kHz",
                channels |-> "mono", bitDepth |-> "16bit", timestamp |-> IsoNow,
                error |-> "Audio download failed due to video loading error"],
     transcription |-> [success |-> FALSE, text |-> <<>>, speakers |-> <<>>,
                        events |-> <<>>,
                        error |-> "Video loading failed - no transcription available",
                        timestamp |-> IsoNow],
     thumbnails |-> generateThumbnails(videoId),
     technical |-> [error |-> message, pageLoadTime |-> "null"],
     analyzedAt |-> IsoNow,
     url |-> url,
     method |-> "Puppeteer (failed)",
     error |-> message]

\* the locals after the catch block of analyzeVideo has run on the error
\* message: the record to return, or the error extractVideoId throws again
Catch(f, message) ==
    LET id == extractVideoId(f.url)
    IN  [f EXCEPT !.pc = "finally",
                  !.result = IF id.ok
                             THEN [kind |-> "return",
                                   value |-> Fallback(id.value, f.url, message)]
                             ELSE [kind |-> "throw", message |-> id.message]]

----------------------------------------------------------------------------
(* The transcription service (services/transcriptionService.js)           *)

\* text.split(/[.!?]+/): the pieces between the runs of terminal
\* punctuation, an empty piece where the text starts or ends with a run
split(text) ==
    LET terminal(i) == text[i] \in {".", "!", "?"}
        RECURSIVE pieces(_, _, _)
        pieces(i, piece, done) ==
            IF i > Len(text) THEN Append(done, piece)
            ELSE IF ~terminal(i) THEN pieces(i + 1, Append(piece, text[i]), done)
            ELSE IF i > 1 /\ terminal(i - 1) THEN pieces(i + 1, piece, done)
            ELSE pieces(i + 1, <<>>, Append(done, piece))
    IN  pieces(1, <<>>, <<>>)

\* String.prototype.trim (the only white space of the texts is the space)
trim(s) ==
    LET inked == {i \in 1..Len(s) : s[i] # " "}
    IN  IF inked = {} THEN <<>> ELSE SubSeq(s, Min(inked), Max(inked))

\* extractSentences
extractSentences(text) ==
    IF text = <<>> THEN <<>>
    ELSE SelectSeq([k \in 1..Len(split(text)) |-> trim(split(text)[k])],
                   LAMBDA s : Len(s) > 5)

\* an entry whose fake_percentage is the share the detector takes for
\* human text, 100 less the score
ScoreOf_HumanShare(reply) ==
    IF reply.outcome = "threw" THEN [ai_probability |-> 0, error |-> "fetch failed"]
    ELSE IF reply.outcome = "notOk" THEN [ai_probability |-> 0, error |-> "API error"]
    ELSE [ai_probability |-> reply.fakePercentage,
          is_human |-> reply.isHuman,
          text_words |-> reply.textWords,
          fake_percentage |-> 100 - reply.fakePercentage,
          sentences |-> <<>>]

\* what checkAIContent returns for a reply of the detector: the fields of
\* its data, each with its default, or the zero score with the error when
\* the status is not a success or the request threw
ScoreOf(reply) ==
    IF reply.outcome = "threw" THEN [ai_probability |-> 0, error |-> "fetch failed"]
    ELSE IF reply.outcome = "notOk" THEN [ai_probability |-> 0, error |-> "API error"]
    ELSE [ai_probability |-> reply.fakePercentage,
          is_human |-> reply.isHuman,
          text_words |-> reply.textWords,
          fake_percentage |-> reply.fakePercentage,
          sentences |-> <<>>]

\* array.reduce((sum, s) => sum + (s[field] || 0), 0)
SumOf(entries, field) ==
    LET RECURSIVE sum(_)
        sum(k) == IF k = 0 THEN 0
                  ELSE sum(k - 1) + (IF field \in DOMAIN entries[k]
                                     THEN entries[k][field] ELSE 0)
    IN  sum(Len(entries))

\* the quotient sum / count of two integers, kept as the fraction
Quotient(sum, count) == [num |-> sum, den |-> count]

\* a mean that leaves the failed classifications out of the count
MeanOf_SkipsFailed(entries, field) ==
    LET scored == SelectSeq(entries, LAMBDA e : "error" \notin DOMAIN e)
    IN  IF Len(scored) > 0 THEN Quotient(SumOf(entries, field), Len(scored))
        ELSE Quotient(0, 1)

\* the mean processTranscriptWithAI computes of a field of the processed
\* sentences: 0 when there is none
MeanOf(entries, field) ==
    IF Len(entries) > 0 THEN Quotient(SumOf(entries, field), Len(entries))
    ELSE Quotient(0, 1)

\* the ai_analysis block processTranscriptWithAI adds to the result
AiAnalysisOf(sentences, processedSentences) ==
    [processed_at |-> "iso-timestamp",
     total_sentences |-> Len(sentences),
     processed_sentences |-> Len(processedSentences),
     sentences |-> processedSentences,
     overall_ai_probability |-> MeanOf(processedSentences, "ai_probability"),
     average_fake_percentage |-> MeanOf(processedSentences, "fake_percentage")]

----------------------------------------------------------------------------

(* analyzeVideo, one action for each step between two awaits. An operation *)
(* on the page succeeds only while the page context is open; ok tells      *)
(* whether the awaited call resolved or rejected.                          *)

\* the page context of invocation p is open
PageOpen(p) == p \in pages

\* POST /analyze: a request without a URL or with a URL that
\* isValidYouTubeUrl rejects is answered with status 400, any other is
\* passed to analyzeVideo
postAnalyze(p, url) ==
    /\ frame[p].pc = "idle"
    /\ LET valid == url # <<>> /\ isValidYouTubeUrl(url)
       IN  /\ frame' = [frame EXCEPT ![p] =
                           [@ EXCEPT !.pc = IF valid THEN "getBrowser" ELSE "rejected",
                                     !.url = url]]
           /\ history' = Note(p, {"isValidYouTubeUrl"},
                              IF valid THEN {} ELSE {"isValidYouTubeUrl"})
    /\ UNCHANGED <<browser, launched, alive, pages, closer>>

\* analyzeVideo(url) is called
analyzeVideo(p, url) ==
    /\ frame[p].pc = "idle"
    /\ frame' = [frame EXCEPT ![p] = [@ EXCEPT !.pc = "getBrowser", !.url = url]]
    /\ UNCHANGED <<browser, launched, alive, pages, history, closer>>

\* getBrowser up to its await: the handle is returned when there is one,
\* and puppeteer.launch is started when there is none
getBrowser(p) ==
    /\ frame[p].pc = "getBrowser"
    /\ frame' = [frame EXCEPT ![p] =
                    IF browser = NoBrowser
                    THEN [@ EXCEPT !.pc = "launch"]
                    ELSE [@ EXCEPT !.pc = "try", !.browser = browser]]
    /\ history' = Note(p, {"getBrowser"}, {})
    /\ UNCHANGED <<browser, launched, alive, pages, closer>>

\* getBrowser after its await: puppeteer.launch has resolved and the handle
\* is stored, or it has rejected and analyzeVideo throws (the call is made
\* before the try block)
launch(p, ok) ==
    /\ frame[p].pc = "launch"
    /\ IF ok
       THEN /\ launched' = launched + 1
            /\ alive' = alive \cup {launched + 1}
            /\ browser' = launched + 1
            /\ frame' = [frame EXCEPT ![p] =
                            [@ EXCEPT !.pc = "try", !.browser = launched + 1]]
            /\ history' = Note(p, {"launch"}, {})
       ELSE /\ frame' = [frame EXCEPT ![p] =
                            [@ EXCEPT !.pc = "thrown",
                                      !.result = [kind |-> "throw",
                                                  message |-> "launch failed"]]]
            /\ history' = Note(p, {"launch"}, {"launch"})
            /\ UNCHANGED <<browser, launched, alive>>
    /\ UNCHANGED <<pages, closer>>

\* the try block when the page is opened before the identifier is extracted
newPage_PageFirst(p, ok) ==
    /\ frame[p].pc = "try"
    /\ LET id == extractVideoId(frame[p].url)
       IN  IF ~ok
           THEN /\ frame' = [frame EXCEPT ![p] = Catch(@, "newPage failed")]
                /\ history' = Note(p, {"newPage"}, {"newPage"})
                /\ UNCHANGED pages
           ELSE /\ frame[p].browser \in alive
                /\ pages' = pages \cup {p}
                /\ IF id.ok
                   THEN /\ frame' = [frame EXCEPT ![p] =
                                       [@ EXCEPT !.pc = "setup", !.videoId = id.value,
                                                 !.page = "page"]]
                        /\ history' = Note(p, {"extractVideoId", "newPage"}, {})
                   ELSE /\ frame' = [frame EXCEPT ![p] =
                                       Catch([@ EXCEPT !.page = "page"], id.message)]
                        /\ history' = Note(p, {"extractVideoId", "newPage"},
                                           {"extractVideoId"})
    /\ UNCHANGED <<browser, launched, alive, closer>>

\* the try block up to browser.newPage()
newPage(p, ok) ==
    /\ frame[p].pc = "try"
    /\ LET id == extractVideoId(frame[p].url)
       IN  IF ~id.ok
           THEN /\ frame' = [frame EXCEPT ![p] = Catch(@, id.message)]
                /\ history' = Note(p, {"extractVideoId"}, {"extractVideoId"})
                /\ UNCHANGED pages
           ELSE IF ok
           THEN /\ frame[p].browser \in alive
                /\ frame' = [frame EXCEPT ![p] =
                                [@ EXCEPT !.pc = "setup", !.videoId = id.value,
                                          !.page = "page"]]
                /\ pages' = pages \cup {p}
                /\ history' = Note(p, {"extractVideoId", "newPage"}, {})
           ELSE /\ frame' = [frame EXCEPT ![p] =
                                Catch([@ EXCEPT !.videoId = id.value], "newPage failed")]
                /\ history' = Note(p, {"extractVideoId", "newPage"}, {"newPage"})
                /\ UNCHANGED pages
    /\ UNCHANGED <<browser, launched, alive, closer>>

\* a step of the try block on the page that only succeeds or throws: at pc
\* stage it goes on to pc next, or to the catch block with the message
PageStep(p, ok, stage, next, message) ==
    /\ frame[p].pc = stage
    /\ IF ok
       THEN /\ PageOpen(p)
            /\ frame' = [frame EXCEPT ![p] = [@ EXCEPT !.pc = next]]
            /\ history' = Note(p, {stage}, {})
       ELSE /\ frame' = [frame EXCEPT ![p] = Catch(@, message)]
            /\ history' = Note(p, {stage}, {stage})
    /\ UNCHANGED <<browser, launched, alive, pages, closer>>

\* setViewport, setUserAgent, mouse.move and the delay
setupPage(p, ok) ==
    PageStep(p, ok, "setup", "goto", "setup failed")

\* a page.goto whose timeout is caught and logged, the pipeline going on
goto_Caught(p, ok) ==
    /\ frame[p].pc = "goto"
    /\ ok => PageOpen(p)
    /\ frame' = [frame EXCEPT ![p] = [@ EXCEPT !.pc = "waitForPlayer"]]
    /\ history' = Note(p, {"goto"}, IF ok THEN {} ELSE {"goto"})
    /\ UNCHANGED <<browser, launched, alive, pages, closer>>

\* page.goto with its 30 s timeout
goto(p, ok) ==
    PageStep(p, ok, "goto", "waitForPlayer", "Navigation timeout of 30000 ms exceeded")

\* a readiness cascade that makes both waits one after the other, whatever
\* the first wait found
waitForPlayer_ThenVideo(p, ok) ==
    /\ frame[p].pc = "waitForPlayer"
    /\ ok => PageOpen(p)
    /\ frame' = [frame EXCEPT ![p] = [@ EXCEPT !.pc = "waitForVideo"]]
    /\ history' = Note(p, {"waitForPlayer"}, IF ok THEN {} ELSE {"waitForPlayer"})
    /\ UNCHANGED <<browser, launched, alive, pages, closer>>

\* waitForSelector('#movie_player'), 15 s: on failure the second wait follows
waitForPlayer(p, ok) ==
    /\ frame[p].pc = "waitForPlayer"
    /\ ok => PageOpen(p)
    /\ frame' = [frame EXCEPT ![p] =
                    [@ EXCEPT !.pc = IF ok THEN "settle" ELSE "waitForVideo"]]
    /\ history' = Note(p, {"waitForPlayer"}, IF ok THEN {} ELSE {"waitForPlayer"})
    /\ UNCHANGED <<browser, launched, alive, pages, closer>>

\* waitForSelector('video, .video-stream'), 10 s
waitForVideo(p, ok) ==
    PageStep(p, ok, "waitForVideo", "settle", "Waiting for selector failed")

\* the 5 s delay and the cookie dialog: whatever happens is caught
acceptCookies(p) ==
    /\ frame[p].pc = "settle"
    /\ frame' = [frame EXCEPT ![p] = [@ EXCEPT !.pc = "extract"]]
    /\ history' = Note(p, {"acceptCookies"}, {})
    /\ UNCHANGED <<browser, launched, alive, pages, closer>>

\* a || b on texts: the empty text is falsy
Or(a, b) == IF a # <<>> THEN a ELSE b

\* the loops over titleSelectors and channelSelectors: the first selector
\* that matches an element ends the loop, whatever the element holds. The
\* result is the value and the number of selectors queried.
FirstElement(row, default) ==
    LET matching == {j \in DOMAIN row : row[j] # NullObject}
    IN  IF matching = {} THEN [value |-> default, queried |-> Len(row)]
        ELSE LET element == row[Min(matching)]
             IN  [value |-> Or(trim(element.textContent),
                               Or(element.content, default)),
                  queried |-> Min(matching)]

\* the loop over viewSelectors: the first element with a non-empty
\* textContent ends the loop, and its trimmed text is the value
FirstText(row, default) ==
    LET matching == {j \in DOMAIN row :
                        row[j] # NullObject /\ row[j].textContent # <<>>}
    IN  IF matching = {} THEN [value |-> default, queried |-> Len(row)]
        ELSE [value |-> trim(row[Min(matching)].textContent),
              queried |-> Min(matching)]

\* the loops over descriptionSelectors and durationSelectors: each element
\* that matches assigns the value, and the loop ends when the value is not
\* the default any more
FirstValue(row, default) ==
    LET ValueOf(j) == IF row[j] = NullObject THEN default
                      ELSE Or(trim(row[j].textContent),
                              Or(row[j].content, default))
        found == {j \in DOMAIN row : ValueOf(j) # default}
    IN  IF found = {} THEN [value |-> default, queried |-> Len(row)]
        ELSE [value |-> ValueOf(Min(found)), queried |-> Min(found)]

\* description.substring(0, 500)
substring(s, n) == SubSeq(s, 1, Min({n, Len(s)}))

\* the function page.evaluate runs in the document: one loop for each field
evaluate(document) ==
    [title |-> FirstElement(document.title, Lit.UnknownTitle),
     channelName |-> FirstElement(document.channelName, Lit.UnknownChannel),
     viewCount |-> FirstText(document.viewCount, <<"0">>),
     description |-> FirstValue(document.description, <<>>),
     duration |-> FirstValue(document.duration, Lit.Unknown)]

\* the page.evaluate that extracts the video information
extractVideoInfo(p, ok, document) ==
    /\ frame[p].pc = "extract"
    /\ IF ok
       THEN /\ PageOpen(p)
            /\ LET found == evaluate(document)
               IN  frame' = [frame EXCEPT ![p] =
                      [@ EXCEPT !.pc = "playback",
                                !.document = document,
                                !.queried =
                                    [field \in DOMAIN found |->
                                        found[field].queried],
                                !.videoInfo =
                                    [title |-> found.title.value,
                                     channelName |-> found.channelName.value,
                                     viewCount |-> found.viewCount.value,
                                     description |->
                                         substring(found.description.value, 500),
                                     duration |-> found.duration.value]]]
            /\ history' = Note(p, {"extract"}, {})
       ELSE /\ frame' = [frame EXCEPT ![p] = Catch(@, "evaluate failed")]
            /\ history' = Note(p, {"extract"}, {"extract"})
    /\ UNCHANGED <<browser, launched, alive, pages, closer>>

\* a playback check after which the audio is acquired at once
checkPlaybackStatus_ThenAudio(p, ok, d) ==
    /\ frame[p].pc = "playback"
    /\ ok => PageOpen(p)
    /\ frame' = [frame EXCEPT ![p] =
                    [@ EXCEPT !.pc = "downloadAudio",
                              !.media = IF ok THEN d ELSE NullObject,
                              !.playbackStatus =
                                  IF ok THEN PlaybackOf(d) ELSE PlaybackFailed]]
    /\ history' = Note(p, {"playback"}, {})
    /\ UNCHANGED <<browser, launched, alive, pages, closer>>

\* checkPlaybackStatus: the status of the media state d, or the status of
\* its catch block
checkPlaybackStatus(p, ok, d) ==
    /\ frame[p].pc = "playback"
    /\ ok => PageOpen(p)
    /\ LET status == IF ok THEN PlaybackOf(d) ELSE PlaybackFailed
       IN  /\ frame' = [frame EXCEPT ![p] =
                           [@ EXCEPT !.pc = "screenshot",
                                     !.media = IF ok THEN d ELSE NullObject,
                                     !.playbackStatus = status]]
           /\ history' = Note(p, {"playback"},
                              IF status.error # "null" THEN {"playback"} ELSE {})
    /\ UNCHANGED <<browser, launched, alive, pages, closer>>

\* what page.$('#movie_player') may return to takeScreenshot: the player
\* the playback check saw in the same document, or either when its
\* page.evaluate failed
PlayerElements(p) ==
    IF frame[p].media # NullObject THEN {frame[p].media.player} ELSE BOOLEAN

\* a takeScreenshot whose catch block returns null at once
takeScreenshot_NoFallback(p, ok, ts, playerElement) ==
    /\ frame[p].pc = "screenshot"
    /\ ok => PageOpen(p)
    /\ frame' = [frame EXCEPT ![p] =
                    [@ EXCEPT !.pc = "downloadAudio",
                              !.captured = IF ~ok THEN "none"
                                           ELSE IF playerElement THEN "element"
                                           ELSE "clip",
                              !.screenshotPath =
                                  IF ok THEN ScreenshotRef(frame[p].videoId, ts, Lit.Png)
                                  ELSE NoPath]]
    /\ history' = Note(p, {"screenshot"}, IF ok THEN {} ELSE {"screenshot"})
    /\ UNCHANGED <<browser, launched, alive, pages, closer>>

\* takeScreenshot, its try block: the screenshot of the player element if
\* there is one, else of the page clipped to 1280 x 720; a failure of
\* either call goes to the catch block
takeScreenshot(p, ok, ts, playerElement) ==
    /\ frame[p].pc = "screenshot"
    /\ ok => PageOpen(p)
    /\ frame' = [frame EXCEPT ![p] =
                    IF ok
                    THEN [@ EXCEPT !.pc = "downloadAudio",
                                   !.captured = IF playerElement THEN "element"
                                                ELSE "clip",
                                   !.screenshotPath = ScreenshotRef(frame[p].videoId, ts, Lit.Png)]
                    ELSE [@ EXCEPT !.pc = "screenshotFallback"]]
    /\ history' = Note(p, {"screenshot"}, {})
    /\ UNCHANGED <<browser, launched, alive, pages, closer>>

\* takeScreenshot, its catch block: one more attempt, then null
takeScreenshotFallback(p, ok, ts) ==
    /\ frame[p].pc = "screenshotFallback"
    /\ ok => PageOpen(p)
    /\ frame' = [frame EXCEPT ![p] =
                    [@ EXCEPT !.pc = "downloadAudio",
                              !.captured = IF ok THEN "page" ELSE "none",
                              !.screenshotPath =
                                  IF ok THEN ScreenshotRef(frame[p].videoId, ts, Lit.FallbackPng)
                                  ELSE NoPath]]
    /\ history' = Note(p, {"screenshotFallback"}, IF ok THEN {} ELSE {"screenshot"})
    /\ UNCHANGED <<browser, launched, alive, pages, closer>>

----------------------------------------------------------------------------
(* downloadAudio, called from the try block of analyzeVideo *)

\* the locals after downloadAudio when every reference is transcribed
AfterAudio_NoBranch(f, path) ==
    [f EXCEPT !.audioPath = path,
              !.pc = IF path # NoPath THEN "transcribe" ELSE "build"]

\* the locals once downloadAudio has returned the reference path: the
\* thumbnails are generated and transcription is called unless the
\* reference is null or contains the word silent
AfterAudio(f, path) ==
    [f EXCEPT !.audioPath = path,
              !.pc = IF path # NoPath /\ ~includes(path, Lit.Silent)
                     THEN "transcribe" ELSE "build"]

\* the file name is chosen, the audio directory is made and the
\* installation of yt-dlp and ffmpeg is checked: every outcome of the check
\* goes on to the probe, a failure to make the directory goes to the
\* placeholder
checkInstallation(p, outcome, ts) ==
    /\ frame[p].pc = "downloadAudio"
    /\ outcome \in {"installed", "fetched", "fetchFailed", "checkFailed", "mkdirFailed"}
    /\ frame' = [frame EXCEPT ![p] =
                    [@ EXCEPT !.pc = IF outcome = "mkdirFailed" THEN "silent"
                                     ELSE "getInfo",
                              !.outputFilename = frame[p].videoId \o <<"_">> \o ts \o Lit.Wav]]
    /\ history' = Note(p, {"downloadAudio"},
                       IF outcome \in {"fetchFailed", "checkFailed"}
                       THEN {"checkInstallation"}
                       ELSE IF outcome = "mkdirFailed" THEN {"mkdir"} ELSE {})
    /\ UNCHANGED <<browser, launched, alive, pages, closer>>

\* a probe whose failure is only logged
getInfo_Logged(p, ok) ==
    /\ frame[p].pc = "getInfo"
    /\ frame' = [frame EXCEPT ![p] = [@ EXCEPT !.pc = "method1"]]
    /\ history' = Note(p, {"getInfo"}, IF ok THEN {} ELSE {"getInfo"})
    /\ UNCHANGED <<browser, launched, alive, pages, closer>>

\* the probe getInfoAsync: a failure is thrown again and ends the downloads
getInfo(p, ok) ==
    /\ frame[p].pc = "getInfo"
    /\ frame' = [frame EXCEPT ![p] = [@ EXCEPT !.pc = IF ok THEN "method1" ELSE "silent"]]
    /\ history' = Note(p, {"getInfo"}, IF ok THEN {} ELSE {"getInfo"})
    /\ UNCHANGED <<browser, launched, alive, pages, closer>>

\* method 1, downloadAsync: it returns and the file exists, it returns and
\* there is no file, it throws and leaves no file, or it throws after it
\* has written the file (a failed conversion). existsSync is called only
\* when it has returned.
downloadMethod1(p, outcome) ==
    /\ frame[p].pc = "method1"
    /\ outcome \in {"file", "nofile", "threw", "threwFile"}
    /\ frame' = [frame EXCEPT ![p] =
                    LET f == [@ EXCEPT !.outputExists =
                                           outcome \in {"file", "threwFile"}]
                    IN  IF outcome = "file"
                        THEN AfterAudio(f, Lit.AudioDir \o f.outputFilename)
                        ELSE [f EXCEPT !.pc = "method2"]]
    /\ history' = Note(p, {"method1"}, IF outcome = "file" THEN {} ELSE {"method1"})
    /\ UNCHANGED <<browser, launched, alive, pages, closer>>

\* a method 2 whose catch block returns null instead of falling through to
\* the placeholder
downloadMethod2_ReturnsNull(p, ok) ==
    /\ frame[p].pc = "method2"
    /\ frame' = [frame EXCEPT ![p] =
                    AfterAudio(@, IF ok THEN Lit.AudioDir \o @.outputFilename
                                  ELSE NoPath)]
    /\ history' = Note(p, {"method2"}, IF ok THEN {} ELSE {"method2"})
    /\ UNCHANGED <<browser, launched, alive, pages, closer>>

\* method 2, getFileAsync and writeFileSync
downloadMethod2(p, ok) ==
    /\ frame[p].pc = "method2"
    /\ frame' = [frame EXCEPT ![p] =
                    IF ok
                    THEN AfterAudio([@ EXCEPT !.outputExists = TRUE],
                                    Lit.AudioDir \o @.outputFilename)
                    ELSE [@ EXCEPT !.pc = "silent"]]
    /\ history' = Note(p, {"method2"}, IF ok THEN {} ELSE {"method2"})
    /\ UNCHANGED <<browser, launched, alive, pages, closer>>

\* the catch block of downloadAudio: createSilentWav writes the placeholder
\* and its reference is returned, or the write fails and the error leaves
\* downloadAudio for the catch block of analyzeVideo
createSilentWav(p, ok, ts) ==
    /\ frame[p].pc = "silent"
    /\ frame' = [frame EXCEPT ![p] =
                    LET f == [@ EXCEPT !.buffer = SilentWavBuffer]
                    IN  IF ok
                        THEN AfterAudio(f, AudioRef(f.videoId, ts, Lit.SilentWav))
                        ELSE Catch(f, "writeFile failed")]
    /\ history' = Note(p, {"createSilentWav"},
                       IF ok THEN {"audio"} ELSE {"audio", "createSilentWav"})
    /\ UNCHANGED <<browser, launched, alive, pages, closer>>

----------------------------------------------------------------------------
(* The rest of analyzeVideo *)

\* the argument of the call of the transcription service in progress: the
\* reference analyzeVideo passes, or the one of the request
SourceOf(f) == IF f.call = NullObject THEN f.audioPath ELSE f.call.source

\* the result object of the try block of transcribeAudioFile (key
\* audioFile) or of transcribeFromUrl (key audioUrl)
ResultOf(f, response) ==
    IF f.call # NullObject /\ f.call.fn = "transcribeFromUrl"
    THEN [success |-> TRUE, transcription |-> response, timestamp |-> IsoNow,
          audioUrl |-> SourceOf(f)]
    ELSE [success |-> TRUE, transcription |-> response, timestamp |-> IsoNow,
          audioFile |-> SourceOf(f)]

\* the result of processTranscriptWithAI: the result with the ai_analysis
EnhancedOf(f) ==
    LET analysis == AiAnalysisOf(f.sentences, f.processedSentences)
    IN  IF f.call # NullObject /\ f.call.fn = "transcribeFromUrl"
        THEN [success |-> TRUE, transcription |-> f.transcription,
              timestamp |-> IsoNow, audioUrl |-> SourceOf(f),
              ai_analysis |-> analysis]
        ELSE [success |-> TRUE, transcription |-> f.transcription,
              timestamp |-> IsoNow, audioFile |-> SourceOf(f),
              ai_analysis |-> analysis]

\* the catch block of transcribeAudioFile and of transcribeFromUrl: the
\* error result, which is saved and returned
ErrorResult(f, message) ==
    [f EXCEPT !.pc = "save",
              !.enhancedResult =
                  IF f.call # NullObject /\ f.call.fn = "transcribeFromUrl"
                  THEN [success |-> FALSE, error |-> message, timestamp |-> IsoNow,
                        audioUrl |-> SourceOf(f)]
                  ELSE [success |-> FALSE, error |-> message, timestamp |-> IsoNow,
                        audioFile |-> SourceOf(f)]]

\* a loop that sends every sentence of the list to the detector
NextSentence_SendsAll(f) ==
    IF f.i < Len(f.sentences)
    THEN [f EXCEPT !.pc = "classify", !.requests = Append(@, f.i)]
    ELSE [f EXCEPT !.i = Len(f.sentences), !.pc = "save",
                   !.enhancedResult = EnhancedOf(f)]

\* the loop of processTranscriptWithAI from the index f.i on: the request
\* for the next sentence longer than 10 characters is sent to the detector
\* (requests lists the indices checkAIContent was called for), or, when
\* there is none, the result is enhanced and goes on to be saved
NextSentence(f) ==
    LET sending == {k \in f.i..(Len(f.sentences) - 1) :
                       Len(trim(f.sentences[k + 1])) > 10}
    IN  IF sending # {}
        THEN [f EXCEPT !.i = Min(sending), !.pc = "classify",
                       !.requests = Append(@, Min(sending))]
        ELSE [f EXCEPT !.i = Len(f.sentences), !.pc = "save",
                       !.enhancedResult = EnhancedOf(f)]

\* POST /transcribe: status 400 without a path and a URL; transcribeFromUrl
\* is called when there is a URL, transcribeAudioFile otherwise
postTranscribe(p, audioPath, audioUrl) ==
    /\ frame[p].pc = "idle"
    /\ frame' = [frame EXCEPT ![p] =
          IF audioPath = <<>> /\ audioUrl = <<>>
          THEN [@ EXCEPT !.pc = "rejected"]
          ELSE IF audioUrl # <<>>
          THEN [@ EXCEPT !.pc = "fetch",
                         !.call = [fn |-> "transcribeFromUrl", source |-> audioUrl]]
          ELSE [@ EXCEPT !.pc = "transcribe",
                         !.call = [fn |-> "transcribeAudioFile", source |-> audioPath]]]
    /\ history' = Note(p, {"postTranscribe"}, {})
    /\ UNCHANGED <<browser, launched, alive, pages, closer>>

\* transcribeAudioFile up to the speech-to-text call: the file is read, or
\* the read fails and the catch block builds the error result
transcribeAudioFile(p, ok) ==
    /\ frame[p].pc = "transcribe"
    /\ frame' = [frame EXCEPT ![p] =
                    IF ok THEN [@ EXCEPT !.pc = "convert"]
                    ELSE ErrorResult(@, "ENOENT: no such file or directory")]
    /\ history' = Note(p, {"transcribe", "readFile"},
                       IF ok THEN {} ELSE {"readFile", "transcription"})
    /\ UNCHANGED <<browser, launched, alive, pages, closer>>

\* transcribeFromUrl when the status of the response is not tested
transcribeFromUrl_StatusIgnored(p, outcome) ==
    /\ frame[p].pc = "fetch"
    /\ frame' = [frame EXCEPT ![p] =
                    IF outcome \in {"ok", "notOk"} THEN [@ EXCEPT !.pc = "convert"]
                    ELSE ErrorResult(@, "fetch failed")]
    /\ history' = Note(p, {"transcribe", "fetch"},
                       IF outcome = "ok" THEN {} ELSE {"fetch", "transcription"})
    /\ UNCHANGED <<browser, launched, alive, pages, closer>>

\* transcribeFromUrl up to the speech-to-text call: the audio is fetched;
\* a status that is not a success, or a failure of fetch, goes to the
\* catch block
transcribeFromUrl(p, outcome) ==
    /\ frame[p].pc = "fetch"
    /\ frame' = [frame EXCEPT ![p] =
                    IF outcome = "ok" THEN [@ EXCEPT !.pc = "convert"]
                    ELSE IF outcome = "notOk"
                    THEN ErrorResult(@, "Failed to fetch audio: Not Found")
                    ELSE ErrorResult(@, "fetch failed")]
    /\ history' = Note(p, {"transcribe", "fetch"},
                       IF outcome = "ok" THEN {} ELSE {"fetch", "transcription"})
    /\ UNCHANGED <<browser, launched, alive, pages, closer>>

\* speechToText.convert has answered: on a failure the catch block builds
\* the error result; on a response processTranscriptWithAI is called, which
\* extracts the sentences and starts its loop
convert(p, ok, response) ==
    /\ frame[p].pc = "convert"
    /\ frame' = [frame EXCEPT ![p] =
                    IF ok
                    THEN NextSentence([@ EXCEPT
                             !.transcription = response,
                             !.enhancedResult = ResultOf(frame[p], response),
                             !.sentences = extractSentences(response.text),
                             !.i = 0,
                             !.requests = <<>>,
                             !.replies = <<>>,
                             !.processedSentences = <<>>])
                    ELSE ErrorResult(@, "speech-to-text failed")]
    /\ history' = Note(p, {"convert"} \cup (IF ok THEN {"processTranscriptWithAI"} ELSE {})
                              \cup (IF frame'[p].pc = "classify"
                                    THEN {"checkAIContent"} ELSE {}),
                       IF ok THEN {} ELSE {"convert", "transcription"})
    /\ UNCHANGED <<browser, launched, alive, pages, closer>>

\* a loop without the delay: the next request is sent as soon as the score
\* is pushed
checkAIContent_NoDelay(p, reply) ==
    /\ frame[p].pc = "classify"
    /\ frame' = [frame EXCEPT ![p] =
                    NextSentence([@ EXCEPT
                        !.i = @ + 1,
                        !.replies = Append(@, reply.outcome),
                        !.processedSentences =
                            Append(@, ScoreOf(reply) @@
                                      [text |-> frame[p].sentences[frame[p].i + 1],
                                       index |-> frame[p].i])])]
    /\ history' = Note(p, {}, IF reply.outcome = "ok" THEN {} ELSE {"checkAIContent"})
    /\ UNCHANGED <<browser, launched, alive, pages, closer>>

\* checkAIContent has its reply (or its failure) from the detector: the
\* score is pushed with the text and the index of the sentence, and the
\* loop waits for one second
checkAIContent(p, reply) ==
    /\ frame[p].pc = "classify"
    /\ frame' = [frame EXCEPT ![p] =
                    [@ EXCEPT !.pc = "delay",
                              !.replies = Append(@, reply.outcome),
                              !.processedSentences =
                                  Append(@, ScoreOf(reply) @@
                                            [text |-> frame[p].sentences[frame[p].i + 1],
                                             index |-> frame[p].i])]]
    /\ history' = Note(p, {}, IF reply.outcome = "ok" THEN {} ELSE {"checkAIContent"})
    /\ UNCHANGED <<browser, launched, alive, pages, closer>>

\* the delay of one second has passed: the loop goes on with the next index
delay(p) ==
    /\ frame[p].pc = "delay"
    /\ frame' = [frame EXCEPT ![p] = NextSentence([@ EXCEPT !.i = @ + 1])]
    /\ history' = Note(p, IF frame'[p].pc = "classify" THEN {"checkAIContent"} ELSE {}, {})
    /\ UNCHANGED <<browser, launched, alive, pages, closer>>

\* saveTranscriptToFile has written the result, or has caught its own
\* failure, and the result is returned: to analyzeVideo, or to the request,
\* which is answered with the formatted result
saveTranscriptToFile(p, ok) ==
    /\ frame[p].pc = "save"
    /\ frame' = [frame EXCEPT ![p] =
          IF frame[p].call = NullObject
          THEN [@ EXCEPT !.pc = "build",
                         !.transcriptionResult = frame[p].enhancedResult]
          ELSE [@ EXCEPT !.pc = "responded",
                         !.transcriptionResult = frame[p].enhancedResult,
                         !.response =
                             [success |-> frame[p].enhancedResult.success,
                              transcription |->
                                  formatTranscription(frame[p].enhancedResult),
                              timestamp |-> frame[p].enhancedResult.timestamp,
                              source |-> frame[p].call.source]]]
    /\ history' = Note(p, {"saveTranscriptToFile"},
                       IF ok THEN {} ELSE {"saveTranscriptToFile"})
    /\ UNCHANGED <<browser, launched, alive, pages, closer>>

\* the analysis object is built, which reads the user agent from the page,
\* and is returned
buildAnalysis(p, ok) ==
    /\ frame[p].pc = "build"
    /\ IF ok
       THEN /\ PageOpen(p)
            /\ frame' = [frame EXCEPT ![p] =
                            [@ EXCEPT !.pc = "finally",
                                      !.result = [kind |-> "return",
                                                  value |-> Analysis(frame[p])]]]
            /\ history' = Note(p, {"build"}, {})
       ELSE /\ frame' = [frame EXCEPT ![p] = Catch(@, "evaluate failed")]
            /\ history' = Note(p, {"build"}, {"build"})
    /\ UNCHANGED <<browser, launched, alive, pages, closer>>

\* a finally block that closes the page only after the try block succeeded
\* (page.close() at the end of the try block instead of in finally)
finallyBlock_AfterTryOnly(p) ==
    /\ frame[p].pc = "finally"
    /\ LET closes == /\ frame[p].page # "null"
                     /\ frame[p].result.kind = "return"
                     /\ frame[p].result.value.method = "Puppeteer"
       IN  IF closes /\ ~PageOpen(p)
           THEN /\ frame' = [frame EXCEPT ![p] =
                                [@ EXCEPT !.pc = "thrown",
                                          !.result = [kind |-> "throw",
                                                      message |-> "page.close failed"]]]
                /\ UNCHANGED pages
           ELSE /\ frame' = [frame EXCEPT ![p] =
                                [@ EXCEPT !.pc = IF frame[p].result.kind = "return"
                                                 THEN "returned" ELSE "thrown"]]
                /\ pages' = IF closes THEN pages \ {p} ELSE pages
    /\ history' = Note(p, {"page.close"}, {})
    /\ UNCHANGED <<browser, launched, alive, closer>>

\* the finally block: the page is closed when there is one, and the
\* invocation ends as the try or catch block decided; page.close() rejects
\* when the page context is gone already, and that error replaces the result
finallyBlock(p) ==
    /\ frame[p].pc = "finally"
    /\ IF frame[p].page = "null"
       THEN /\ frame' = [frame EXCEPT ![p] =
                            [@ EXCEPT !.pc = IF frame[p].result.kind = "return"
                                             THEN "returned" ELSE "thrown"]]
            /\ UNCHANGED <<pages, history>>
       ELSE IF PageOpen(p)
       THEN /\ frame' = [frame EXCEPT ![p] =
                            [@ EXCEPT !.pc = IF frame[p].result.kind = "return"
                                             THEN "returned" ELSE "thrown"]]
            /\ pages' = pages \ {p}
            /\ history' = Note(p, {"page.close"}, {})
       ELSE /\ frame' = [frame EXCEPT ![p] =
                            [@ EXCEPT !.pc = "thrown",
                                      !.result = [kind |-> "throw",
                                                  message |-> "page.close failed"]]]
            /\ history' = Note(p, {"page.close"}, {"page.close"})
            /\ UNCHANGED pages
    /\ UNCHANGED <<browser, launched, alive, closer>>

----------------------------------------------------------------------------
(* close() and the browser process *)

\* the page contexts of browser b
PagesOf(b) == {p \in pages : frame[p].browser = b}

\* close() up to its await: browser.close() is called on the handle, when
\* there is one
close ==
    /\ closer.calls < MaxCloseCalls
    /\ closer' = [calls |-> closer.calls + 1,
                  closing |-> IF browser # NoBrowser
                              THEN closer.closing \cup {[call |-> closer.calls + 1,
                                                         target |-> browser]}
                              ELSE closer.closing]
    /\ UNCHANGED <<browser, launched, alive, pages, frame, history>>

\* close() after its await: the browser process has ended, with its page
\* contexts, and the handle is set to null
closeDone(c) ==
    /\ c \in closer.closing
    /\ alive' = alive \ {c.target}
    /\ pages' = pages \ PagesOf(c.target)
    /\ browser' = NoBrowser
    /\ closer' = [closer EXCEPT !.closing = @ \ {c}]
    /\ UNCHANGED <<launched, frame, history>>

\* the browser process dies or the connection to it is lost; the handle
\* keeps pointing to it
disconnect(b) ==
    /\ b \in alive
    /\ alive' = alive \ {b}
    /\ pages' = pages \ PagesOf(b)
    /\ UNCHANGED <<browser, launched, frame, history, closer>>

----------------------------------------------------------------------------
(* Specifications *)

\* Every outcome the environment can give each step of an invocation.
\* opening: launching the browser, opening the page and setting it up may
\* fail while the browser runs; faults: a step that catches its own errors
\* may fail while the page context is open. The detector answers with one
\* score or with a status that is not a success; all its replies are taken
\* in SpecTranscribe.
EveryOutcome ==
    [urls |-> Urls, opening |-> TRUE, navigation |-> BOOLEAN, faults |-> TRUE,
     steps |-> BOOLEAN, clock |-> ClockValues,
     documents |-> Documents, medias |-> MediaStates,
     installations |-> {"installed", "fetched", "fetchFailed", "checkFailed",
                        "mkdirFailed"},
     downloads |-> {"file", "nofile", "threw", "threwFile"},
     transcribed |-> BOOLEAN, responses |-> Transcriptions,
     replies |-> {r \in DetectorReplies :
                     r.outcome = "notOk" \/ (r.outcome = "ok" /\ ~r.isHuman)}]

\* One value for each step that only produces data; every step that can
\* throw is still taken both ways, and a step that catches its own errors
\* fails when the page context is gone.
OneOfEach ==
    [urls |-> {UrlWatch}, opening |-> TRUE, navigation |-> BOOLEAN, faults |-> FALSE,
     steps |-> BOOLEAN, clock |-> ClockValues,
     documents |-> {DocumentAt(1, NullObject, ViewsFound)},
     medias |-> {m \in MediaStates : m.video /\ m.readyState = 4},
     installations |-> {"installed"},
     downloads |-> {"file", "threw"},
     transcribed |-> {TRUE}, responses |-> {r \in Transcriptions : r.text # <<>>},
     replies |-> {r \in DetectorReplies : r.outcome = "notOk"}]

\* As OneOfEach, for a page that cannot be reached: page.goto times out,
\* and the steps before it fail only when the browser is gone.
Unreachable ==
    [OneOfEach EXCEPT !.navigation = {FALSE}, !.opening = FALSE]

\* the outcomes of a step on the page that catches its own errors
Caught(p, env) == IF env.faults THEN BOOLEAN ELSE {PageOpen(p)}

\* the outcomes of puppeteer.launch and of browser.newPage
Opened(p, env) ==
    IF env.opening THEN BOOLEAN
    ELSE {frame[p].pc = "launch" \/ frame[p].browser \in alive}

\* the steps of a call of the transcription service after the audio was
\* obtained
Transcription(p, env) ==
    \/ \E ok \in env.transcribed : \E response \in env.responses :
          convert(p, ok, response)
    \/ \E reply \in env.replies : checkAIContent(p, reply)
    \/ delay(p)
    \/ \E ok \in BOOLEAN : saveTranscriptToFile(p, ok)

\* the steps of invocation p in the environment env
Steps(p, env) ==
    \/ \E url \in env.urls : analyzeVideo(p, url)
    \/ getBrowser(p)
    \/ \E ok \in Opened(p, env) : launch(p, ok)
    \/ \E ok \in Opened(p, env) : newPage(p, ok)
    \/ \E ok \in (IF env.opening THEN BOOLEAN ELSE {PageOpen(p)}) : setupPage(p, ok)
    \/ \E ok \in env.navigation : goto(p, ok)
    \/ \E ok \in env.steps : waitForPlayer(p, ok)
    \/ \E ok \in env.steps : waitForVideo(p, ok)
    \/ acceptCookies(p)
    \/ \E ok \in env.steps : \E document \in env.documents :
          extractVideoInfo(p, ok, document)
    \/ \E ok \in Caught(p, env) : \E d \in env.medias : checkPlaybackStatus(p, ok, d)
    \/ \E ok \in Caught(p, env) : \E ts \in env.clock :
          \E playerElement \in PlayerElements(p) :
              takeScreenshot(p, ok, ts, playerElement)
    \/ \E ok \in Caught(p, env) : \E ts \in env.clock :
          takeScreenshotFallback(p, ok, ts)
    \/ \E outcome \in env.installations : \E ts \in env.clock :
          checkInstallation(p, outcome, ts)
    \/ \E ok \in env.steps : getInfo(p, ok)
    \/ \E outcome \in env.downloads : downloadMethod1(p, outcome)
    \/ \E ok \in env.steps : downloadMethod2(p, ok)
    \/ \E ok \in env.steps : \E ts \in env.clock : createSilentWav(p, ok, ts)
    \/ \E ok \in env.transcribed : transcribeAudioFile(p, ok)
    \/ Transcription(p, env)
    \/ \E ok \in env.steps : buildAnalysis(p, ok)
    \/ finallyBlock(p)

\* close() is called on the service, from outside the invocations
Shutdown ==
    \/ close
    \/ \E c \in closer.closing : closeDone(c)

\* what happens to the browser from outside the invocations
Environment ==
    \/ Shutdown
    \/ \E b \in alive : disconnect(b)

\* one invocation of analyzeVideo, with every outcome of every step
Next ==
    \/ Steps(1, EveryOutcome)
    \/ Environment

Spec == Init /\ [][Next]_vars

\* all the invocations in flight together: the first runs the whole
\* pipeline, the others analyse a page that cannot be reached
NextConcurrent ==
    \/ Steps(1, OneOfEach)
    \/ \E p \in Invocations \ {1} : Steps(p, Unreachable)
    \/ Shutdown

SpecConcurrent == Init /\ [][NextConcurrent]_vars

\* As OneOfEach, with the steps that catch their own errors failing on an
\* open page too
EveryStep ==
    [OneOfEach EXCEPT !.faults = TRUE]

\* the steps of an invocation p in which no step fails and the download of
\* method 1 leaves its file, with two readings of the clock
Straight(p) ==
    \/ \E url \in OneOfEach.urls : analyzeVideo(p, url)
    \/ getBrowser(p)
    \/ launch(p, TRUE)
    \/ newPage(p, TRUE)
    \/ setupPage(p, TRUE)
    \/ goto(p, TRUE)
    \/ waitForPlayer(p, TRUE)
    \/ acceptCookies(p)
    \/ \E document \in OneOfEach.documents : extractVideoInfo(p, TRUE, document)
    \/ \E d \in OneOfEach.medias : checkPlaybackStatus(p, TRUE, d)
    \/ \E ts \in ClockReadings : \E playerElement \in PlayerElements(p) :
          takeScreenshot(p, TRUE, ts, playerElement)
    \/ \E ts \in ClockReadings : checkInstallation(p, "installed", ts)
    \/ getInfo(p, TRUE)
    \/ downloadMethod1(p, "file")
    \/ transcribeAudioFile(p, TRUE)
    \/ Transcription(p, OneOfEach)
    \/ buildAnalysis(p, TRUE)
    \/ finallyBlock(p)

\* two analyses of the same video in flight together: the first with every
\* step failing or not, the second with no failure and either reading of
\* the clock
NextSameVideo ==
    \/ Steps(1, EveryStep)
    \/ Straight(2)

SpecSameVideo == Init /\ [][NextSameVideo]_vars

\* As OneOfEach, over every document of the family
EveryDocument ==
    [OneOfEach EXCEPT !.documents = DocumentFamily]

\* one invocation of analyzeVideo on each document of the family
NextDocuments ==
    \/ Steps(1, EveryDocument)
    \/ Environment

SpecDocuments == Init /\ [][NextDocuments]_vars

\* As OneOfEach, over every media element of the family, and with the
\* steps on the page failing or not
EveryMedia ==
    [OneOfEach EXCEPT !.medias = MediaFamily, !.faults = TRUE]

\* one invocation of analyzeVideo on each media element of the family
NextMedia ==
    \/ Steps(1, EveryMedia)
    \/ Environment

SpecMedia == Init /\ [][NextMedia]_vars

\* the requests and calls over the family of URLs, up to the step that
\* extracts the identifier: a URL reaches analyzeVideo through POST /analyze
\* or in a direct call of the service
NextUrls ==
    \/ \E url \in UrlFamily : postAnalyze(1, url)
    \/ \E url \in UrlFamily : analyzeVideo(1, url)
    \/ getBrowser(1)
    \/ launch(1, TRUE)
    \/ newPage(1, TRUE)
    \/ finallyBlock(1)

SpecUrls == Init /\ [][NextUrls]_vars

\* every outcome of the steps of a call of the transcription service
EveryReply ==
    [transcribed |-> BOOLEAN, responses |-> Transcripts, replies |-> DetectorReplies]

\* one request to POST /transcribe, with every outcome of every step
NextTranscribe ==
    \/ \E audioPath \in AudioPaths : \E audioUrl \in AudioUrls :
          postTranscribe(1, audioPath, audioUrl)
    \/ \E ok \in BOOLEAN : transcribeAudioFile(1, ok)
    \/ \E outcome \in {"ok", "notOk", "threw"} : transcribeFromUrl(1, outcome)
    \/ Transcription(1, EveryReply)

SpecTranscribe == Init /\ [][NextTranscribe]_vars

\* the requests to POST /transcribe in flight together, each with one
\* outcome for every step
NextClassifiers ==
    \E p \in Invocations :
        \/ \E audioPath \in AudioPaths : \E audioUrl \in AudioUrls :
              postTranscribe(p, audioPath, audioUrl)
        \/ transcribeAudioFile(p, TRUE)
        \/ transcribeFromUrl(p, "ok")
        \/ Transcription(p, OneOfEach)

SpecClassifiers == Init /\ [][NextClassifiers]_vars

----------------------------------------------------------------------------
(* Properties *)

\* invocation p has ended by returning a record
Returned(p) == frame[p].pc = "returned"

\* invocation p has ended by throwing
Thrown(p) == frame[p].pc = "thrown"

\* the record invocation p has returned
Record(p) == frame[p].result.value

\* the identifier each URL of Urls carries, read off the URL by position
IdOf(url) ==
    IF url = UrlWatch THEN SubSeq(UrlWatch, 33, 43)
    ELSE IF url = UrlShort THEN SubSeq(UrlShort, 18, 28)
    ELSE <<>>

\* the object o has a non-empty error field
HasError(o) == "error" \in DOMAIN o /\ o.error \notin {"null", ""}

\* the steps of the try block whose failure is thrown to the catch block
ThrowingSteps ==
    {"newPage", "setup", "goto", "waitForVideo", "extract", "createSilentWav", "build"}

\* the message of the error each of these steps throws
MessageOf(step) ==
    CASE step = "newPage" -> "newPage failed"
      [] step = "setup" -> "setup failed"
      [] step = "goto" -> "Navigation timeout of 30000 ms exceeded"
      [] step = "waitForVideo" -> "Waiting for selector failed"
      [] step = "extract" -> "evaluate failed"
      [] step = "createSilentWav" -> "writeFile failed"
      [] step = "build" -> "evaluate failed"

\* C1: for every URL from which extractVideoId derives an identifier,
\* analyzeVideo ends by returning a record and never by throwing, whichever
\* step fails (browser launch, page, navigation, ..., closing the page).
C1_NeverThrows ==
    \A p \in Invocations :
        Thrown(p) => ~extractVideoId(frame[p].url).ok

C3_OneBrowser ==
    closer.calls = 0 => launched <= 1

\* downloadAudio has returned a reference to invocation p, and the
\* transcription block of the try block (lines 217-222) is behind it
AudioReturned(p) ==
    /\ frame[p].audioPath # NoPath
    /\ frame[p].pc # "transcribe"

\* the reference downloadAudio returned to p is the placeholder of
\* createSilentWav
IsPlaceholder(p) == "audio" \in history[p].failed

NavigationFailed(p) ==
    history[p].failed \cap {"goto", "waitForVideo"} # {}

\* the stages that follow the readiness wait
LaterStages ==
    {"extract", "playback", "screenshot", "screenshotFallback", "downloadAudio",
     "getInfo", "method1", "method2", "createSilentWav", "transcribe", "build"}

CaughtStages == {"playback", "screenshot", "audio", "transcription"}

\* C6: in every record returned by analyzeVideo, each stage that failed in
\* that invocation (playback check, screenshot, audio acquisition,
\* transcription) has a non-empty error field in its own sub-object.
C6_FailedStagesHaveError ==
    \A p \in Invocations :
        Returned(p) =>
            /\ "playback" \in history[p].failed => HasError(Record(p).playback)
            /\ "screenshot" \in history[p].failed => HasError(Record(p).screenshot)
            /\ "audio" \in history[p].failed => HasError(Record(p).audio)
            /\ "transcription" \in history[p].failed
                   => HasError(Record(p).transcription)

\* the sub-objects of a record
SubObjects ==
    {"author", "playback", "screenshot", "audio", "transcription", "technical"}

\* the keys of the sub-object k of the record r
Keys(r, k) ==
    CASE k = "author" -> DOMAIN r.author
      [] k = "playback" -> DOMAIN r.playback
      [] k = "screenshot" -> DOMAIN r.screenshot
      [] k = "audio" -> DOMAIN r.audio
      [] k = "transcription" -> DOMAIN r.transcription
      [] k = "technical" -> DOMAIN r.technical

\* C7: every record returned by analyzeVideo has the same set of keys in
\* each sub-object, in all terminal outcomes: any two returned records
\* agree on the keys of each sub-object.
C7_SameKeys ==
    \A p, q \in Invocations :
        (Returned(p) /\ Returned(q))
            => \A k \in SubObjects : Keys(Record(p), k) = Keys(Record(q), k)

\* C8: the method tag marks full success ('Puppeteer') only when every
\* stage succeeded: a record with a null screenshot, the silent
\* placeholder or a failed transcription carries another tag.
C8_MethodMarksSuccess ==
    \A p \in Invocations :
        (Returned(p) /\ Record(p).method = "Puppeteer")
            => /\ history[p].failed \cap CaughtStages = {}
               /\ Record(p).screenshot.path # NoPath
               /\ Record(p).audio.method = "Downloaded"
               /\ Record(p).transcription.success

\* C9: when navigation fails, or any other step of the try block throws,
\* for a URL with an extractable identifier, the returned record has method
\* 'Puppeteer (failed)', title 'Error loading video', a top-level error
\* equal to the failure message, viewCount 0, canPlay and isPlaying false,
\* null screenshot and audio paths, transcription.success false, and the
\* four thumbnails derived from the identifier alone.
C9_FailureRecord ==
    \A p \in Invocations :
        (Returned(p) /\ history[p].failed \cap ThrowingSteps # {})
            => LET r == Record(p)
                   id == IdOf(frame[p].url)
               IN  /\ r.method = "Puppeteer (failed)"
                   /\ r.title = "Error loading video"
                   /\ \E s \in history[p].failed \cap ThrowingSteps :
                          r.error = MessageOf(s)
                   /\ r.viewCount = Number(0)
                   /\ ~r.playback.canPlay /\ ~r.playback.isPlaying
                   /\ r.screenshot.path = NoPath
                   /\ r.audio.path = NoPath
                   /\ ~r.transcription.success
                   /\ r.videoId = id
                   /\ r.thumbnails =
                        << [url |-> Lit.ThumbBase \o id \o Lit.DefaultJpg,
                            width |-> 120, height |-> 90],
                           [url |-> Lit.ThumbBase \o id \o Lit.MqJpg,
                            width |-> 320, height |-> 180],
                           [url |-> Lit.ThumbBase \o id \o Lit.HqJpg,
                            width |-> 480, height |-> 360],
                           [url |-> Lit.ThumbBase \o id \o Lit.MaxresJpg,
                            width |-> 1280, height |-> 720] >>

\* C9, its case: the record returned after the navigation timed out, for
\* the watch-page URL
C9_Witness ==
    \E p \in Invocations :
        /\ Returned(p)
        /\ "goto" \in history[p].failed
        /\ frame[p].url = UrlWatch
        /\ Record(p).error = "Navigation timeout of 30000 ms exceeded"

\* control has left the downloadAudio call of invocation p
DownloadLeft(p) ==
    /\ "downloadAudio" \in history[p].called
    /\ frame[p].pc \notin {"getInfo", "method1", "method2", "silent"}

\* s ends with the text lit
EndsWith(s, lit) == HasAt(s, Len(s) - Len(lit) + 1, lit)

\* C10: downloadAudio never returns null or undefined: for every
\* combination of toolchain-check, probe, strategy A and strategy B outcomes
\* it returns an audio reference, and the only error it can raise is a
\* failure to write the silent placeholder.
C10_AlwaysAReference ==
    \A p \in Invocations :
        DownloadLeft(p) =>
            IF "createSilentWav" \in history[p].failed
            THEN /\ frame[p].audioPath = NoPath
                 /\ frame[p].pc \in {"finally", "returned", "thrown"}
            ELSE /\ frame[p].audioPath # NoPath
                 /\ HasAt(frame[p].audioPath, 1, Lit.AudioDir \o frame[p].videoId)
                 /\ EndsWith(frame[p].audioPath, Lit.Wav)

\* C10, its case: the probe succeeded, both strategies failed, and the
\* reference of the placeholder was returned
C10_Witness ==
    \E p \in Invocations :
        /\ DownloadLeft(p)
        /\ {"method1", "method2"} \subseteq history[p].failed
        /\ "createSilentWav" \in history[p].called \ history[p].failed
        /\ EndsWith(frame[p].audioPath, Lit.SilentWav)

\* the 44 bytes of a RIFF/WAVE header declaring PCM, 1 channel, 16000 Hz,
\* byte rate 32000, block align 2, 16 bits, data size 320000, RIFF size 320036
ExpectedHeader ==
    << 82, 73, 70, 70,   36, 226, 4, 0,   87, 65, 86, 69,
       102, 109, 116, 32,   16, 0, 0, 0,   1, 0,   1, 0,
       128, 62, 0, 0,   0, 125, 0, 0,   2, 0,   16, 0,
       100, 97, 116, 97,   0, 226, 4, 0 >>

\* invocation p has had createSilentWav write the placeholder
PlaceholderWritten(p) ==
    /\ "createSilentWav" \in history[p].called
    /\ "createSilentWav" \notin history[p].failed

\* C11: the silent placeholder createSilentWav writes is exactly 320044
\* bytes: the 44-byte RIFF/WAVE header (PCM, 1 channel, 16000 Hz, 16 bits,
\* block align 2, byte rate 32000, data size 320000, RIFF size 320036)
\* followed only by zero-valued sample bytes.
C11_SilentWavLayout ==
    \A p \in Invocations :
        PlaceholderWritten(p) =>
            /\ frame[p].buffer.length = 320044
            /\ frame[p].buffer.length = 44 + 10 * 16000 * 2
            /\ \A o \in 0..43 : ByteAt(frame[p].buffer, o) = ExpectedHeader[o + 1]
            /\ \A o \in DOMAIN frame[p].buffer.bytes :
                  o >= 44 => frame[p].buffer.bytes[o] = 0

\* the placeholder has been written and its reference returned in a record
C11_Witness ==
    \E p \in Invocations :
        /\ PlaceholderWritten(p)
        /\ Returned(p)
        /\ EndsWith(Record(p).audio.path, Lit.SilentWav)
        /\ frame[p].buffer.length = 320044

\* the URL of invocation p has these parts
UrlIs(p, scheme, host, shape, id, more) ==
    frame[p].url = UrlOf(scheme, host, shape, id, more)

\* the shapes the validator is meant to accept
AcceptedShapes == {s \in UrlShapes : s.name \in {"watch", "watchLast", "short", "embed"}}

\* the identifiers of eleven characters
FullIds == {id \in UrlIds : Len(id) = 11}

\* the URL of invocation p has passed isValidYouTubeUrl
Accepted(p) ==
    /\ "isValidYouTubeUrl" \in history[p].called
    /\ "isValidYouTubeUrl" \notin history[p].failed

\* extractVideoId has been applied to the URL of invocation p
Extracted(p) == "extractVideoId" \in history[p].called

\* C12: every URL isValidYouTubeUrl accepts has an identifier that
\* extractVideoId extracts without throwing, and the identifier extracted is
\* the one the URL was built with, whatever the accepted form (watch, short
\* link, embed; http or https; with or without www.; any parameter order).
C12_AcceptedUrlsHaveAnId ==
    \A p \in Invocations :
        Accepted(p) /\ Extracted(p) =>
            /\ "extractVideoId" \notin history[p].failed
            /\ \A scheme \in {Lit.Http, Lit.Https}, host \in {<<>>, Lit.Www},
                  shape \in AcceptedShapes, id \in FullIds, more \in BOOLEAN :
                  UrlIs(p, scheme, host, shape, id, more) => frame[p].videoId = id

\* C13: for every text that has none of the accepted shapes,
\* isValidYouTubeUrl returns false and extractVideoId throws.
C13_OtherTextsRejected ==
    \A p \in Invocations :
        (\E scheme \in {Lit.Http, Lit.Https, <<>>}, host \in {<<>>, Lit.Www, <<"m", ".">>},
            shape \in UrlShapes, id \in UrlIds, more \in BOOLEAN :
            /\ UrlIs(p, scheme, host, shape, id, more)
            /\ \/ scheme = <<>>
               \/ host \notin {<<>>, Lit.Www}
               \/ shape \notin AcceptedShapes)
        => /\ "isValidYouTubeUrl" \in history[p].called => frame[p].pc = "rejected"
           /\ Extracted(p) => "extractVideoId" \in history[p].failed

\* the steps that come before the identifier is extracted
BeforeExtraction == {"isValidYouTubeUrl", "getBrowser", "launch", "extractVideoId"}

\* C14: when extractVideoId fails on the URL, analyzeVideo ends with an
\* error and has opened no page context, has not navigated, taken a
\* screenshot or downloaded audio, and has called neither the transcription
\* nor the classification service.
C14_AbortsBeforeAnyWork ==
    \A p \in Invocations :
        "extractVideoId" \in history[p].failed =>
            /\ frame[p].pc \in {"finally", "thrown"}
            /\ frame[p].result.kind = "throw"
            /\ history[p].called \subseteq BeforeExtraction
            /\ p \notin pages
            /\ frame[p].page = "null"
            /\ frame[p].transcriptionResult = NullObject

\* analyzeVideo has thrown for a URL without an identifier
C14_Witness ==
    \E p \in Invocations :
        /\ Thrown(p)
        /\ "extractVideoId" \in history[p].failed
        /\ ~extractVideoId(frame[p].url).ok
        /\ frame[p].result.message = "Could not extract video ID"

\* the steps of a call in which the audio is obtained and transcribed
ObtainingSteps == {"readFile", "fetch", "convert"}

\* the call of the transcription service of p has returned
CallReturned(p) ==
    /\ "saveTranscriptToFile" \in history[p].called
    /\ frame[p].transcriptionResult # NullObject

\* C15: transcribeAudioFile and transcribeFromUrl invoke the classifier
\* exactly when the speech-to-text call succeeded; when obtaining the audio
\* or the speech-to-text call fails they return success false with an error
\* and a timestamp, no classification request is issued, and nothing is
\* thrown: the request is answered with the result.
C15_ClassifiedIffTranscribed ==
    \A p \in Invocations :
        /\ "processTranscriptWithAI" \in history[p].called
               <=> ("convert" \in history[p].called
                        /\ "convert" \notin history[p].failed)
        /\ history[p].failed \cap ObtainingSteps # {} =>
               /\ "checkAIContent" \notin history[p].called
               /\ "processTranscriptWithAI" \notin history[p].called
               /\ frame[p].pc \in {"save", "responded", "build", "finally",
                                   "returned", "thrown"}
               /\ ~frame[p].enhancedResult.success
               /\ {"success", "error", "timestamp"} \subseteq DOMAIN frame[p].enhancedResult
               /\ frame[p].enhancedResult.error \notin {"null", ""}
        /\ frame[p].call # NullObject =>
               /\ frame[p].pc # "thrown"
               /\ frame[p].result = NullObject
               /\ CallReturned(p) =>
                      /\ frame[p].pc = "responded"
                      /\ frame[p].response.success = frame[p].transcriptionResult.success

\* a call of transcribeFromUrl has returned its error result after the
\* audio could not be fetched
C15_Witness ==
    \E p \in Invocations :
        /\ CallReturned(p)
        /\ frame[p].call # NullObject
        /\ frame[p].call.fn = "transcribeFromUrl"
        /\ "fetch" \in history[p].failed
        /\ ~frame[p].response.success
        /\ "error" \in DOMAIN frame[p].transcriptionResult

\* C16: at no moment are two classification requests outstanding at the
\* detector, also with several calls of the service in flight together.
C16_OneRequestAtATime ==
    Cardinality({p \in Invocations : frame[p].pc = "classify"}) <= 1

\* the call of p has returned a result with its ai_analysis
Classified(p) ==
    /\ CallReturned(p)
    /\ "ai_analysis" \in DOMAIN frame[p].transcriptionResult

\* the text of the transcript of p and its ai_analysis
TranscriptOf(p) == frame[p].transcriptionResult.transcription.text

AiOf(p) == frame[p].transcriptionResult.ai_analysis

\* the sentences of a text: the stretches between terminal punctuation
\* that are not blank, as pairs of their first and last position
SentencesIn(text) ==
    LET terminal(i) == text[i] \in {".", "!", "?"}
    IN  { <<a, b>> \in (1..Len(text)) \X (1..Len(text)) :
            /\ a <= b
            /\ \A i \in a..b : ~terminal(i)
            /\ a = 1 \/ terminal(a - 1)
            /\ b = Len(text) \/ terminal(b + 1)
            /\ \E i \in a..b : text[i] # " " }

\* C17: total_sentences counts every sentence of the punctuation split,
\* the short ones included, processed_sentences only those sent for
\* classification; three sentences of which one has 4 characters give 3 and
\* 2, an empty transcript gives total_sentences 0 and probability 0.
C17_TotalCountsEverySentence ==
    \A p \in Invocations :
        Classified(p) =>
            /\ AiOf(p).total_sentences = Cardinality(SentencesIn(TranscriptOf(p)))
            /\ AiOf(p).processed_sentences = Len(AiOf(p).sentences)
            /\ TranscriptOf(p) = TextOkay =>
                   /\ AiOf(p).total_sentences = 3
                   /\ AiOf(p).processed_sentences = 2
            /\ TranscriptOf(p) = <<>> =>
                   /\ AiOf(p).total_sentences = 0
                   /\ AiOf(p).overall_ai_probability.num = 0

\* C18: the index of each score is the position of its sentence in the
\* punctuation split of the transcript, before any filtering by length, and
\* the indices of ai_analysis.sentences are strictly increasing.
C18_IndexIsSplitPosition ==
    \A p \in Invocations :
        Classified(p) =>
            LET scores == AiOf(p).sentences
                pieces == split(TranscriptOf(p))
            IN  /\ \A k \in 1..Len(scores) :
                      /\ scores[k].index + 1 \in 1..Len(pieces)
                      /\ trim(pieces[scores[k].index + 1]) = scores[k].text
                /\ \A k \in 1..(Len(scores) - 1) : scores[k].index < scores[k + 1].index

\* the sum of a field over the scores, the failed ones counting 0, taken
\* value by value
ScoreValues == {r.fakePercentage : r \in {r \in DetectorReplies : r.outcome = "ok"}}

TotalOf(scores, field) ==
    LET having(v) == {k \in 1..Len(scores) :
                         /\ "error" \notin DOMAIN scores[k]
                         /\ scores[k][field] = v}
        RECURSIVE total(_)
        total(vs) == IF vs = {} THEN 0
                     ELSE LET v == CHOOSE v \in vs : TRUE
                          IN  v * Cardinality(having(v)) + total(vs \ {v})
    IN  total(ScoreValues)

\* C19: overall_ai_probability is the sum of ai_probability over the
\* processed list divided by the number of its entries, and
\* average_fake_percentage likewise for fake_percentage; a failed
\* classification adds 0 to the sum and 1 to the count; both are 0 when the
\* list is empty.
C19_MeansOverProcessed ==
    \A p \in Invocations :
        Classified(p) =>
            LET scores == AiOf(p).sentences
                overall == AiOf(p).overall_ai_probability
                average == AiOf(p).average_fake_percentage
                count == Len(scores)
            IN  /\ count = AiOf(p).processed_sentences
                /\ count = 0 => overall.num = 0 /\ average.num = 0
                /\ count > 0 =>
                      /\ overall.den # 0 /\ average.den # 0
                      /\ overall.num * count
                             = TotalOf(scores, "ai_probability") * overall.den
                      /\ average.num * count
                             = TotalOf(scores, "fake_percentage") * average.den

\* a result whose processed list has a failed classification and a scored
\* one
C19_Witness ==
    \E p \in Invocations :
        /\ Classified(p)
        /\ Len(AiOf(p).sentences) = 2
        /\ "error" \in DOMAIN AiOf(p).sentences[1]
        /\ "error" \notin DOMAIN AiOf(p).sentences[2]
        /\ AiOf(p).sentences[2].ai_probability = 80
        /\ AiOf(p).overall_ai_probability = [num |-> 80, den |-> 2]

\* C20: when transcription succeeded and classification has run, the
\* record analyzeVideo returns carries the scores of the sentences and the
\* overall probability inside its transcription block.
C20_RecordCarriesAiAnalysis ==
    \A p \in Invocations :
        (Returned(p) /\ Classified(p) /\ Record(p).method = "Puppeteer") =>
            /\ "ai_analysis" \in DOMAIN Record(p).transcription
            /\ Record(p).transcription.ai_analysis = AiOf(p)

\* invocation p has returned the record of a completed analysis
Analysed(p) == Returned(p) /\ Record(p).method = "Puppeteer"

\* the text without its separators (commas and white space)
Separated(text) == SelectSeq(text, LAMBDA c : c \notin {",", " "})

\* how many characters of s, from the first on, are in the set cs
Leading(s, cs) ==
    Cardinality({n \in 1..Len(s) : \A j \in 1..n : s[j] \in cs})

\* the parser of the specification: the separators are stripped; the number
\* is the leading digits with an optional fraction; the letter k, m or b
\* (either case) that directly follows the number scales it by 10^3, 10^6
\* or 10^9; any other text after the number leaves the integer itself, and
\* a text without a leading number gives 0
SpecifiedCount(text) ==
    LET s == Separated(text)
        digits == {"0", "1", "2", "3", "4", "5", "6", "7", "8", "9"}
        ni == Leading(s, digits)
        rest == SubSeq(s, ni + 1, Len(s))
        nf == IF rest # <<>> /\ rest[1] = "."
              THEN Leading(SubSeq(rest, 2, Len(rest)), digits) ELSE 0
        end == IF nf > 0 THEN ni + nf + 2
               ELSE IF rest # <<>> /\ rest[1] = "." THEN ni + 2 ELSE ni + 1
        suffix == IF end <= Len(s) THEN s[end] ELSE ""
        power == IF suffix \in {"k", "K"} THEN 3
                 ELSE IF suffix \in {"m", "M"} THEN 6
                 ELSE IF suffix \in {"b", "B"} THEN 9
                 ELSE 0
        whole == DigitsValue(SubSeq(s, 1, ni) \o SubSeq(s, ni + 2, ni + 1 + nf))
    IN  IF ni = 0 THEN 0
        ELSE (whole * Pow10(power)) \div Pow10(nf)

\* the view count text has a leading number
HasLeadingNumber(text) ==
    LET s == Separated(text) IN s # <<>> /\ IsDigit(s[1])

\* C21: the view count of the record is what the specified parser gives for
\* the extracted text: the separators stripped, the number scaled by 10^3,
\* 10^6 or 10^9 only when k, m or b is the suffix of the number, and the
\* integer itself otherwise. Stated for the texts that start with a number.
C21_AgreesWithSpecifiedParser ==
    \A p \in Invocations :
        (Analysed(p) /\ HasLeadingNumber(frame[p].videoInfo.viewCount)) =>
            Record(p).viewCount = Number(SpecifiedCount(frame[p].videoInfo.viewCount))

\* the four examples of the specification and a suffix followed by a word
\* are parsed as specified
C21_ExamplesHold ==
    \A p \in Invocations :
        (Analysed(p) /\ frame[p].videoInfo.viewCount \in
                            { <<"1", ",", "2", "3", "4">>, <<"1", "0", "K">>,
                              <<"2", ".", "5", "M">>, <<"1", "B">>,
                              <<"1", ".", "2", "k", " ", "v", "i", "e", "w", "s">> })
            => /\ Record(p).viewCount =
                      Number(SpecifiedCount(frame[p].videoInfo.viewCount))
               /\ Record(p).viewCount.n \in {1234, 10000, 2500000, 1000000000, 1200}

\* C22: the view count of the record is never NaN, and it is 0 when the
\* extracted text has no leading number (an empty text, or words only,
\* whatever their letters).
C22_ZeroWhenUnparsable ==
    \A p \in Invocations :
        Analysed(p) =>
            /\ ~Record(p).viewCount.nan
            /\ ~HasLeadingNumber(frame[p].videoInfo.viewCount)
                   => Record(p).viewCount = Number(0)

\* words without the letters k, m, b, and the empty text, give 0
C22_PlainWordsGiveZero ==
    \A p \in Invocations :
        (Analysed(p) /\ frame[p].videoInfo.viewCount \in
                            {<<>>, <<"N", "o", " ", "v", "i", "e", "w", "s">>})
            => Record(p).viewCount = Number(0)

\* invocation p has extracted the video information
InfoExtracted(p) == frame[p].videoInfo # NullObject

\* the content a selector result yields: the text without the white space
\* around it, else the content attribute; empty for no element
ContentOf(result) ==
    IF result = NullObject THEN <<>>
    ELSE IF trim(result.textContent) # <<>> THEN trim(result.textContent)
    ELSE result.content

\* the named default of each field
DefaultOf(field) ==
    CASE field = "title" -> Lit.UnknownTitle
      [] field = "channelName" -> Lit.UnknownChannel
      [] field = "viewCount" -> <<"0">>
      [] field = "description" -> <<>>
      [] field = "duration" -> Lit.Unknown

\* the field of invocation p is what the cascade of the specification gives
\* on the document: the content of the first strategy that yields one, with
\* no strategy after it evaluated, and the default when none yields any
CascadeHolds(p, field) ==
    LET row == frame[p].document[field]
        yielding == {j \in DOMAIN row : ContentOf(row[j]) # <<>>}
    IN  IF yielding = {}
        THEN frame[p].videoInfo[field] = DefaultOf(field)
        ELSE /\ frame[p].videoInfo[field] = ContentOf(row[Min(yielding)])
             /\ frame[p].queried[field] = Min(yielding)

\* C23: each of title, channel, view count, description and duration takes
\* the value of the first strategy that yields non-empty content, the
\* strategies before it yielding none (no element, or an element with empty
\* content), and no later strategy is evaluated; it keeps its default when
\* no strategy yields content.
C23_FirstContentWins ==
    \A p \in Invocations :
        InfoExtracted(p) =>
            \A field \in {"title", "channelName", "viewCount", "description",
                          "duration"} : CascadeHolds(p, field)

\* the cascade holds for every field when the strategies without content
\* match no element, and for description and duration on every document
C23_HoldsWithoutEmptyElements ==
    \A p \in Invocations :
        InfoExtracted(p) =>
            /\ CascadeHolds(p, "description") /\ CascadeHolds(p, "duration")
            /\ \A field \in {"title", "channelName", "viewCount"} :
                   (\A j \in DOMAIN frame[p].document[field] :
                        LET result == frame[p].document[field][j]
                        IN  result = NullObject \/ ContentOf(result) # <<>>)
                       => CascadeHolds(p, field)

\* strategy X of invocation p has been invoked: the call is the next step
\* or has been made
Invoked(p, method) == frame[p].pc = method \/ method \in history[p].called

\* strategy A of invocation p has ended
MethodOneEnded(p) == "method1" \in history[p].called

\* C24: once strategy A has ended, strategy B is invoked if and only if the
\* probe succeeded and A did not leave the expected output file, because it
\* threw or because it returned without creating it; when A's output file
\* exists its reference is returned and B is never invoked. B is not
\* invoked before A has ended.
C24_SecondOnlyWithoutFile ==
    \A p \in Invocations :
        /\ Invoked(p, "method2") => MethodOneEnded(p)
        /\ MethodOneEnded(p) /\ "method2" \notin history[p].called =>
              /\ Invoked(p, "method2")
                    <=> ("getInfo" \in history[p].called \ history[p].failed
                            /\ ~frame[p].outputExists)
              /\ frame[p].outputExists =>
                    /\ ~Invoked(p, "method2")
                    /\ frame[p].audioPath = Lit.AudioDir \o frame[p].outputFilename

\* what the code does: B is invoked exactly when A threw or returned
\* without the file, and the reference is returned at once exactly when A
\* returned with the file
C24_SecondUnlessReturnedWithFile ==
    \A p \in Invocations :
        /\ Invoked(p, "method2") =>
              /\ MethodOneEnded(p)
              /\ "getInfo" \in history[p].called \ history[p].failed
        /\ MethodOneEnded(p) =>
              IF "method1" \in history[p].failed
              THEN Invoked(p, "method2")
              ELSE /\ ~Invoked(p, "method2")
                   /\ frame[p].outputExists
                   /\ frame[p].audioPath = Lit.AudioDir \o frame[p].outputFilename

\* the probe of invocation p has failed
ProbeFailed(p) == "getInfo" \in history[p].failed

\* the toolchain check or the toolchain fetch does not stop the probe and
\* the strategies: after its failure the probe is invoked, and strategy A
\* after a probe that succeeded
ToolchainNotFatal(p) ==
    "checkInstallation" \in history[p].failed =>
        /\ Invoked(p, "getInfo")
        /\ "getInfo" \in history[p].called \ history[p].failed
              => Invoked(p, "method1")

\* the reference downloadAudio gave invocation p is that of a placeholder
\* createSilentWav has just built
PlaceholderReturned(p) ==
    /\ "createSilentWav" \in history[p].called
    /\ frame[p].buffer = SilentWavBuffer
    /\ HasAt(frame[p].audioPath, 1, Lit.AudioDir \o frame[p].videoId)
    /\ EndsWith(frame[p].audioPath, Lit.SilentWav)

\* C25 as claimed: if the probe fails, neither strategy A nor strategy B is
\* invoked and downloadAudio returns the reference of a newly synthesized
\* silent placeholder; a failure of the toolchain check or fetch alone does
\* not prevent the probe and the strategies from running.
C25_ProbeFailureGivesPlaceholder ==
    \A p \in Invocations :
        /\ ToolchainNotFatal(p)
        /\ ProbeFailed(p) =>
              /\ ~Invoked(p, "method1") /\ ~Invoked(p, "method2")
              /\ DownloadLeft(p) => PlaceholderReturned(p)

\* C25, amended: if the probe fails, neither strategy is invoked and
\* createSilentWav is called; downloadAudio returns the reference of the
\* placeholder it wrote, unless the write fails, and then the error leaves
\* downloadAudio and no reference is returned. A failure of the toolchain
\* check or fetch alone does not prevent the probe and the strategies.
C25_PlaceholderUnlessWriteFails ==
    \A p \in Invocations :
        /\ ToolchainNotFatal(p)
        /\ ProbeFailed(p) =>
              /\ ~Invoked(p, "method1") /\ ~Invoked(p, "method2")
              /\ DownloadLeft(p) =>
                    IF "createSilentWav" \in history[p].failed
                    THEN /\ frame[p].audioPath = NoPath
                         /\ frame[p].pc \in {"finally", "returned", "thrown"}
                    ELSE PlaceholderReturned(p)

\* C25, its case: the toolchain check failed, the probe failed after it and
\* the reference of the placeholder was returned
C25_Witness ==
    \E p \in Invocations :
        /\ "checkInstallation" \in history[p].failed
        /\ ProbeFailed(p)
        /\ DownloadLeft(p)
        /\ PlaceholderReturned(p)

\* the screenshot capture of invocation p has completed: takeScreenshot was
\* called and has returned, from its try block or from its catch block
ScreenshotCompleted(p) ==
    /\ "screenshot" \in history[p].called
    /\ frame[p].pc \notin {"screenshot", "screenshotFallback"}

\* C26: within one invocation the playback check has completed before the
\* screenshot capture starts, the screenshot capture has completed before
\* audio acquisition starts, and audio acquisition has completed, with a
\* reference, before transcription starts.
C26_StagesInOrder ==
    \A p \in Invocations :
        /\ Invoked(p, "screenshot") =>
              /\ "playback" \in history[p].called
              /\ frame[p].playbackStatus # NullObject
        /\ Invoked(p, "downloadAudio") => ScreenshotCompleted(p)
        /\ Invoked(p, "transcribe") =>
              /\ ScreenshotCompleted(p)
              /\ DownloadLeft(p)
              /\ frame[p].audioPath # NoPath

\* C26, its case: the four stages have run, the screenshot through its
\* fallback, and the transcriber was called on the downloaded file
C26_Witness ==
    \E p \in Invocations :
        /\ {"playback", "screenshot", "screenshotFallback", "downloadAudio",
            "method1", "transcribe"} \subseteq history[p].called
        /\ Returned(p)

\* the requests of the run of p that have no reply yet
Outstanding(p) == Len(frame[p].requests) - Len(frame[p].processedSentences)

\* C27: within one run of processTranscriptWithAI the requests are issued
\* one at a time in the order of the sentences: a request is issued either
\* first, or after the request before it has completed and the delay of one
\* second that follows it has passed; at most one request of the run is
\* outstanding at any moment.
C27_OneAtATimeInOrder ==
    [][\A p \in Invocations :
          /\ frame'[p].requests # frame[p].requests =>
                /\ frame'[p].requests = Append(frame[p].requests, frame'[p].i)
                /\ frame'[p].pc = "classify"
                /\ Outstanding(p) = 0
                /\ IF frame[p].requests = <<>>
                   THEN frame[p].pc = "convert"
                   ELSE /\ frame[p].pc = "delay"
                        /\ frame[p].requests[Len(frame[p].requests)] < frame'[p].i
          /\ Outstanding(p)' = IF frame'[p].pc = "classify" THEN 1 ELSE 0
      ]_vars

\* C27, its case: the second request of a run is outstanding, after the
\* reply to the first
C27_Witness ==
    \E p \in Invocations :
        /\ frame[p].pc = "classify"
        /\ Len(frame[p].requests) = 2
        /\ Len(frame[p].processedSentences) = 1

\* how many elements of the sequence s satisfy Test
CountOf(s, Test(_)) == Cardinality({j \in DOMAIN s : Test(s[j])})

\* C28: every candidate sentence longer than 10 characters, trimmed, gets
\* exactly one classification request and exactly one entry of the
\* processed list, whatever the reply: for a status that is not a success
\* and for a failed request the entry has ai_probability 0 and an error. A
\* candidate of 10 characters or fewer gets no request and no entry, and is
\* counted in total_sentences. checkAIContent never throws: the run ends
\* with a result whose success is true.
C28_OneEntryForEachLongSentence ==
    \A p \in Invocations :
        Classified(p) =>
            LET candidates == extractSentences(TranscriptOf(p))
                scores == AiOf(p).sentences
                expected(k) == IF Len(trim(candidates[k])) > 10 THEN 1 ELSE 0
            IN  /\ frame[p].transcriptionResult.success
                /\ AiOf(p).total_sentences = Len(candidates)
                /\ Len(frame[p].replies) = Len(scores)
                /\ \A k \in 1..Len(candidates) :
                      /\ CountOf(frame[p].requests, LAMBDA r : r = k - 1) = expected(k)
                      /\ CountOf(scores, LAMBDA e : e.index = k - 1) = expected(k)
                      /\ \A j \in 1..Len(scores) :
                            scores[j].index = k - 1 => scores[j].text = candidates[k]
                /\ \A j \in 1..Len(scores) :
                      /\ scores[j].index + 1 \in 1..Len(candidates)
                      /\ IF frame[p].replies[j] = "ok"
                         THEN "error" \notin DOMAIN scores[j]
                         ELSE /\ scores[j].ai_probability = 0
                              /\ "error" \in DOMAIN scores[j]
                              /\ scores[j].error # ""

\* C28, its case: a transcript with a candidate of 8 characters and one of
\* 11, whose only request failed
C28_Witness ==
    \E p \in Invocations :
        /\ Classified(p)
        /\ TranscriptOf(p) = TextFine
        /\ AiOf(p).total_sentences = 2
        /\ AiOf(p).processed_sentences = 1
        /\ frame[p].replies = <<"threw">>
        /\ AiOf(p).sentences[1].ai_probability = 0

\* C29: takeScreenshot never throws: its first attempt captures the player
\* element if there is one and the page clipped to the viewport otherwise;
\* if that attempt fails it makes one fallback attempt, and only then; it
\* returns null only when both attempts have failed, and a reference
\* otherwise; a null screenshot does not stop the pipeline: audio
\* acquisition is the next step.
C29_ScreenshotNeverThrows ==
    \A p \in Invocations :
        /\ frame[p].pc = "screenshotFallback" =>
              /\ "screenshot" \in history[p].called
              /\ "screenshotFallback" \notin history[p].called
        /\ ScreenshotCompleted(p) =>
              LET path == frame[p].screenshotPath
                  fallback == "screenshotFallback" \in history[p].called
              IN  /\ Invoked(p, "downloadAudio")
                  /\ path = NoPath <=> (fallback /\ "screenshot" \in history[p].failed)
                  /\ path = NoPath <=> frame[p].captured = "none"
                  /\ frame[p].captured = "page" <=> (fallback /\ path # NoPath)
                  /\ (frame[p].captured \in {"element", "clip"}
                          /\ frame[p].media # NullObject) =>
                        (frame[p].captured = "element" <=> frame[p].media.player)
                  /\ path # NoPath =>
                        /\ HasAt(path, 1, Lit.ScreenshotsDir \o frame[p].videoId)
                        /\ EndsWith(path, Lit.Png)
                        /\ EndsWith(path, Lit.FallbackPng) <=> fallback

\* C29, its case: both attempts failed, the screenshot is null and the
\* record returned has the reference of the downloaded audio
C29_Witness ==
    \E p \in Invocations :
        /\ Analysed(p)
        /\ "screenshot" \in history[p].failed
        /\ Record(p).screenshot.path = NoPath
        /\ Record(p).audio.path # NoPath
        /\ "method1" \in history[p].called \ history[p].failed

SecondWaitStep(p) ==
    frame[p].pc = "waitForVideo" /\ frame'[p].pc # "waitForVideo"

\* both readiness waits of invocation p have failed
BothWaitsFailed(p) ==
    {"waitForPlayer", "waitForVideo"} \subseteq history[p].failed

\* what holds of the readiness cascade in every state
ReadinessCascade ==
    \A p \in Invocations :
        /\ Invoked(p, "waitForVideo") => "waitForPlayer" \in history[p].failed
        /\ ("waitForPlayer" \in history[p].called
               /\ "waitForPlayer" \notin history[p].failed)
              => ~Invoked(p, "waitForVideo")
        /\ BothWaitsFailed(p)
              => /\ history[p].called
                        \cap {"extract", "playback", "screenshot",
                              "screenshotFallback"} = {}
                 /\ frame[p].videoInfo = NullObject
                 /\ frame[p].playbackStatus = NullObject
                 /\ frame[p].captured = "none"
                 /\ frame[p].pc \in {"finally", "returned", "thrown"}
                 /\ Returned(p) => Record(p).method = "Puppeteer (failed)"
                 /\ frame[p].pc = "finally"
                       => /\ frame[p].result.kind = "return"
                          /\ frame[p].result.value.method = "Puppeteer (failed)"

\* C31: the second readiness wait (video element, 10 s) is made only after
\* the first (player element, 15 s) has failed, and at most once in an
\* invocation; after the first wait succeeded the second is never made; and
\* when both fail, no extraction, playback check or screenshot is made and
\* the catch block returns the failure record.
C31_SecondWaitOnlyAfterFirstFailed ==
    /\ []ReadinessCascade
    /\ [][\A p \in Invocations :
            SecondWaitStep(p) => /\ "waitForVideo" \notin history[p].called
                                 /\ "waitForPlayer" \in history[p].failed]_vars

\* C31, its case: both waits failed and the failure record was returned
C31_Witness ==
    \E p \in Invocations :
        /\ BothWaitsFailed(p)
        /\ Returned(p)
        /\ Record(p).method = "Puppeteer (failed)"


\* the reference downloadAudio returned to p is that of a file strategy A
\* or strategy B produced
Downloaded(p) ==
    /\ frame[p].audioPath # NoPath
    /\ \/ {"method1"} \subseteq history[p].called \ history[p].failed
       \/ {"method2"} \subseteq history[p].called \ history[p].failed

\* C32: every audio artifact whose reference strategy A or B returns has
\* passed through the conversion step (convertToWav: 16 kHz, mono, 16-bit
\* PCM) before the reference is returned.
C32_ConvertedBeforeReturned ==
    \A p \in Invocations :
        Downloaded(p) => "convertToWav" \in history[p].called


\* the files invocation p has written so far, by the path they are served
\* under: its screenshot, the output file of the download methods and the
\* silent placeholder
WrittenPaths(p) ==
    {frame[p].screenshotPath : x \in {c \in {frame[p].captured} : c # "none"}}
    \cup {Lit.AudioDir \o frame[p].outputFilename :
              x \in {e \in {frame[p].outputExists} : e}}
    \cup {frame[p].audioPath :
              x \in {w \in {PlaceholderWritten(p)} : w /\ frame[p].audioPath # NoPath}}

\* C33: no two screenshot or audio-acquisition operations of two invocations
\* analysing the same video write to the same output file path, whether the
\* invocations run one after the other or together and whatever millisecond
\* clock values they read.
C33_NoSharedOutputPath ==
    \A p, q \in Invocations :
        (p # q /\ frame[p].videoId = frame[q].videoId)
            => WrittenPaths(p) \cap WrittenPaths(q) = {}


\* C34: for every video ID, also one that contains the text silent, the
\* audio method of a record of the success path is 'Silent placeholder'
\* exactly when createSilentWav synthesized the artifact and 'Downloaded'
\* exactly when strategy A or B produced it; transcription is skipped only
\* for a synthesized placeholder; the method is never 'Failed'.
C34_MethodNamesTheSource ==
    \A p \in Invocations :
        Analysed(p) =>
            /\ Record(p).audio.method = "Silent placeholder" <=> IsPlaceholder(p)
            /\ Record(p).audio.method = "Downloaded" <=> Downloaded(p)
            /\ "transcribe" \notin history[p].called => IsPlaceholder(p)
            /\ Record(p).audio.method # "Failed"


\* invocation p has written an audio file: the output file of a download
\* method or the silent placeholder
AudioWritten(p) == frame[p].outputExists \/ PlaceholderWritten(p)

\* C35: when a step fails after the screenshot or the audio artifact was
\* produced in the same invocation, the returned record still references
\* the artifacts: screenshot.path is not null whenever a screenshot file
\* was written, and audio.path is not null whenever an audio file was
\* written.
C35_RecordKeepsArtifacts ==
    \A p \in Invocations :
        Returned(p) =>
            /\ frame[p].captured # "none" => Record(p).screenshot.path # NoPath
            /\ AudioWritten(p) => Record(p).audio.path # NoPath


\* a call of close() completes in this step: browser.close() has resolved
\* and the handle is cleared, or close() found no handle and did nothing
CloseCompletes ==
    \/ closer'.closing # closer.closing /\ closer'.closing \subseteq closer.closing
    \/ closer'.calls > closer.calls /\ browser = NoBrowser

\* a call of getBrowser is in progress: between the test of the handle and
\* its assignment
GetBrowserInProgress ==
    \E p \in Invocations : frame[p].pc \in {"getBrowser", "launch"}

\* C36: when close() completes with no getBrowser call in progress, every
\* browser process launched since the start has been closed and the shared
\* handle is null, after any interleaving of concurrent invocations.
C36_CloseLeavesNoBrowser ==
    [][(CloseCompletes /\ ~GetBrowserInProgress')
          => (alive' = {} /\ browser' = NoBrowser)]_vars


\* C37: in every ai_analysis block produced, overall_ai_probability equals
\* average_fake_percentage: the ai_probability and the fake_percentage of a
\* sentence are both the score of the detector when the classification
\* succeeded, and both count as 0 when it failed.
C37_AggregatesAgree ==
    \A p \in Invocations :
        Classified(p) =>
            /\ AiOf(p).overall_ai_probability = AiOf(p).average_fake_percentage
            /\ \A k \in 1..Len(AiOf(p).sentences) :
                  LET s == AiOf(p).sentences[k]
                  IN  IF frame[p].replies[k] = "ok"
                      THEN /\ s.ai_probability \in ScoreValues
                           /\ s.fake_percentage = s.ai_probability
                      ELSE /\ s.ai_probability = 0
                           /\ "fake_percentage" \notin DOMAIN s

\* C37, its case: a block over a scored sentence and a failed one, whose two
\* aggregates are the same fraction, not zero
C37_Witness ==
    \E p \in Invocations :
        /\ Classified(p)
        /\ \E j, k \in 1..Len(AiOf(p).sentences) :
              /\ frame[p].replies[j] = "ok"
              /\ frame[p].replies[k] # "ok"
        /\ AiOf(p).overall_ai_probability.num > 0
        /\ AiOf(p).average_fake_percentage = AiOf(p).overall_ai_probability

====
